---- MODULE Spec2Model ----
(***************************************************************************)
(* Model of the arbitrage finder: the scanner process_data, the fetch      *)
(* orchestrator get_arbitrage_opportunities (src/src/logic.py) and the     *)
(* bankroll allocator calculate_bankroll_allocation (src/src/gui.py).      *)
(*                                                                         *)
(* Numbers.  The program computes with Python floats (binary64).  The     *)
(* model keeps every float together with the value the same computation    *)
(* has in exact arithmetic, and rounds each operation to nearest, ties to  *)
(* even, as the hardware does; comparisons are made on the rounded values. *)
(***************************************************************************)
EXTENDS Integers, Sequences, FiniteSets, TLC

\* ------------------------------------------------------------------------
\* Exact rational arithmetic
\* ------------------------------------------------------------------------
Abs(x) == IF x < 0 THEN -x ELSE x

RECURSIVE GCD(_, _)
GCD(a, b) == IF b = 0 THEN a ELSE GCD(b, a % b)

\* n/d for d > 0 and g = gcd(|n|, d)
Reduced(n, d, g) == [n |-> n \div g, d |-> d \div g]

\* the rational n/d (d # 0) in lowest terms with a positive denominator
Rat(n, d) ==
    IF d < 0 THEN Reduced(-n, -d, GCD(Abs(n), -d)) ELSE Reduced(n, d, GCD(Abs(n), d))

RInt(k) == [n |-> k, d |-> 1]
RNeg(a) == [n |-> -a.n, d |-> a.d]
\* a + b over the least common denominator, g = gcd(a.d, b.d)
AddOver(a, b, g) == Rat(a.n * (b.d \div g) + b.n * (a.d \div g), (a.d \div g) * b.d)
RAdd(a, b) == AddOver(a, b, GCD(a.d, b.d))
RSub(a, b) == AddOver(a, RNeg(b), GCD(a.d, b.d))
\* a * b with the common factors g = gcd(|a.n|, b.d) and h = gcd(|b.n|, a.d)
\* cancelled first, which keeps the intermediate integers small
MulOver(a, b, g, h) ==
    [n |-> (a.n \div g) * (b.n \div h), d |-> (a.d \div h) * (b.d \div g)]
RMul(a, b) ==
    IF a.n = 0 \/ b.n = 0 THEN RInt(0)
    ELSE MulOver(a, b, GCD(Abs(a.n), b.d), GCD(Abs(b.n), a.d))
\* a / b for b # 0 (Python raises ZeroDivisionError at b = 0; the grids
\* hold no zero price and no zero total)
RDiv(a, b) == RMul(a, IF b.n < 0 THEN [n |-> -b.d, d |-> -b.n] ELSE [n |-> b.d, d |-> b.n])
RLt(a, b) == RSub(a, b).n < 0
RLe(a, b) == RSub(a, b).n <= 0

\* ------------------------------------------------------------------------
\* Python floats (IEEE 754 binary64, round to nearest, ties to even)
\* ------------------------------------------------------------------------
\* A float x is the record [n, d, t, e] that stands for
\*     x = n/d + (t/d) * 2^(e - 52)
\* n/d (lowest terms, d > 0) is the value the same computation has in exact
\* arithmetic, t counts the accumulated rounding in units of 1/d of the
\* spacing of the floats of x's binade [2^e, 2^(e+1)).  x is a float iff
\* n * 2^(52-e) + t is a multiple of d.  With n = 0 the record is the exact
\* small value (t/d) * 2^(e-52) left by a cancelling subtraction.
Sign(x) == IF x > 0 THEN 1 ELSE IF x < 0 THEN -1 ELSE 0

\* F applied to the value of v, which is computed once
Bind(v, F(_)) == CHOOSE r \in { F(x) : x \in {v} } : TRUE

RECURSIVE Pow2(_)
Pow2(k) == IF k = 0 THEN 1 ELSE 2 * Pow2(k - 1)

\* r * 2^k for a rational r and an integer k
Scale(r, k) ==
    IF r.n = 0 THEN r
    ELSE IF k >= 0 THEN Rat(r.n * Pow2(k), r.d) ELSE Rat(r.n, r.d * Pow2(-k))

\* floor(log2(n/d)) for n, d > 0
RECURSIVE FloorLog2(_, _)
FloorLog2(n, d) ==
    IF n >= 2 * d THEN FloorLog2(n, 2 * d) + 1
    ELSE IF n < d THEN FloorLog2(2 * n, d) - 1
    ELSE 0

RECURSIVE IsPow2Int(_)
IsPow2Int(k) == k = 1 \/ (k % 2 = 0 /\ IsPow2Int(k \div 2))

\* n/d (lowest terms, positive) is a power of two
IsPow2(n, d) == (d = 1 /\ IsPow2Int(n)) \/ (n = 1 /\ IsPow2Int(d))

\* 2^k mod m
RECURSIVE Pow2Mod(_, _)
Pow2Mod(k, m) ==
    IF k = 0 THEN 1 % m
    ELSE IF k >= 8 THEN (Pow2Mod(k - 8, m) * 256) % m
    ELSE (Pow2Mod(k - 1, m) * 2) % m

\* the binade in which Q + r * 2^s is rounded: that of Q, or the one below
\* when Q is a power of two and the value lies on the side of zero
Binade(Q, r, hint) ==
    Bind(FloorLog2(Abs(Q.n), Q.d), LAMBDA e0 :
        [e0 |-> e0,
         e |-> IF IsPow2(Abs(Q.n), Q.d)
                  /\ (r.n * Sign(Q.n) < 0 \/ (r.n = 0 /\ hint * Sign(Q.n) < 0))
               THEN e0 - 1 ELSE e0])

\* the multiple of the spacing nearest to T: t = lo or lo + d, where
\* t = c (mod 2d) makes the significand an even integer
Nearest(T, c, d, hint) ==
    Bind(T.n \div T.d, LAMBDA Tf :
    Bind(Tf - ((Tf - c) % d), LAMBDA lo :
    Bind(Sign(2 * T.n - (2 * lo + d) * T.d), LAMBDA side :
        IF T.d = 1 /\ T.n = lo THEN lo
        ELSE IF side < 0 THEN lo
        ELSE IF side > 0 THEN lo + d
        ELSE IF hint > 0 THEN lo + d
        ELSE IF hint < 0 THEN lo
        ELSE IF (lo - c) % (2 * d) = 0 THEN lo ELSE lo + d)))

\* The float nearest to Q + r * 2^s, Q the exact-arithmetic value and
\* r * 2^s the first-order effect of the operands' roundings; hint is the
\* sign of the remainder beyond first order, which decides only when the
\* first-order value lies exactly half way between two floats.
RoundValue(Q, r, s, hint) ==
    IF Q.n = 0
    THEN IF r.n = 0 THEN [n |-> 0, d |-> 1, t |-> 0, e |-> 0]
         ELSE [n |-> 0, d |-> r.d, t |-> r.n, e |-> s + 52]
    ELSE Bind(Binade(Q, r, hint), LAMBDA b :
         Bind(Nearest(RMul(Scale(r, s - b.e + 52), RInt(Q.d)),
                      (((-Q.n) % (2 * Q.d)) * Pow2Mod(52 - b.e, 2 * Q.d)) % (2 * Q.d),
                      Q.d, hint), LAMBDA t :
             [n |-> Q.n, d |-> Q.d, t |-> t, e |-> IF t = 0 THEN b.e0 ELSE b.e]))

Round(Q, r, s, hint) ==
    Bind(Q, LAMBDA Qv : Bind(r, LAMBDA rv : RoundValue(Qv, rv, s, hint)))

\* the exact-arithmetic value carried by a float
Nom(x) == Rat(x.n, x.d)

Min(a, b) == IF a <= b THEN a ELSE b

\* the roundings carried by a and b, brought to one power of two, with the
\* exact-arithmetic values
Errs(a, b) ==
    Bind((IF a.t = 0 THEN b.e ELSE IF b.t = 0 THEN a.e ELSE Min(a.e, b.e)) - 52,
         LAMBDA s :
        [s |-> s,
         a |-> Scale(Rat(a.t, a.d), a.e - 52 - s),
         b |-> Scale(Rat(b.t, b.d), b.e - 52 - s),
         A |-> Nom(a),
         B |-> Nom(b)])

\* float(n/d): a decimal literal of the JSON text, or int / int
Float(n, d) == Round(Rat(n, d), RInt(0), 0, 0)

FAdd(a, b) ==
    Bind(a, LAMBDA x : Bind(b, LAMBDA y : Bind(Errs(x, y), LAMBDA er :
        Round(RAdd(er.A, er.B), RAdd(er.a, er.b), er.s, 0))))

FSub(a, b) ==
    Bind(a, LAMBDA x : Bind(b, LAMBDA y : Bind(Errs(x, y), LAMBDA er :
        Round(RSub(er.A, er.B), RSub(er.a, er.b), er.s, 0))))

FMul(a, b) ==
    Bind(a, LAMBDA x : Bind(b, LAMBDA y : Bind(Errs(x, y), LAMBDA er :
        Round(RMul(er.A, er.B),
              RAdd(RMul(er.A, er.b), RMul(er.B, er.a)), er.s,
              Sign(er.a.n) * Sign(er.b.n)))))

\* the sign of what a / b has beyond first order: Q * rb * (rb - ra), with
\* ra and rb the relative roundings of a and of b
DivHint(er, Q) ==
    IF er.A.n = 0 THEN 0
    ELSE Bind(RDiv(er.b, er.B), LAMBDA rb :
            Sign(Q.n) * Sign(rb.n) * Sign(RSub(rb, RDiv(er.a, er.A)).n))

\* a / b for b # 0
FDiv(a, b) ==
    Bind(a, LAMBDA x : Bind(b, LAMBDA y : Bind(Errs(x, y), LAMBDA er :
        Bind(RDiv(er.A, er.B), LAMBDA Q :
            Round(Q, RDiv(RSub(er.a, RMul(Q, er.b)), er.B), er.s, DivHint(er, Q))))))

\* -1, 0, 1 as a < b, a = b, a > b
FCmp(a, b) ==
    Bind(a, LAMBDA x : Bind(b, LAMBDA y : Bind(Errs(x, y), LAMBDA er :
        IF er.A # er.B THEN Sign(RSub(er.A, er.B).n)
        ELSE Sign(RSub(er.a, er.b).n))))

FLt(a, b) == FCmp(a, b) < 0
FLe(a, b) == FCmp(a, b) <= 0

\* ------------------------------------------------------------------------
\* process_data: normalisation of one match (logic.py 104-126)
\* ------------------------------------------------------------------------
\* outcomes_data is a Python dict (insertion ordered): a sequence of
\* [name, cands] entries, cands a sequence of <<bookie_name, odd>>.
HasOutcome(od, name) == \E i \in 1..Len(od) : od[i].name = name

\* logic.py 119-122: create the list on first sight, then append
AddQuote(od, name, bookie, odd) ==
    IF HasOutcome(od, name)
    THEN [i \in 1..Len(od) |->
            IF od[i].name = name
            THEN [od[i] EXCEPT !.cands = Append(@, <<bookie, odd>>)]
            ELSE od[i]]
    ELSE Append(od, [name |-> name, cands |-> << <<bookie, odd>> >>])

\* logic.py 115-122: the loop over one market's outcomes
RECURSIVE AddMarket(_, _, _)
AddMarket(od, bookie, outcomes) ==
    IF outcomes = <<>> THEN od
    ELSE AddMarket(AddQuote(od, Head(outcomes).name, bookie, Head(outcomes).price),
                   bookie, Tail(outcomes))

\* logic.py 106-122: the loop over the bookmakers; a bookmaker without
\* markets is skipped, only markets[0] is read
RECURSIVE CollectOutcomes(_, _)
CollectOutcomes(od, bookmakers) ==
    IF bookmakers = <<>> THEN od
    ELSE LET b == Head(bookmakers)
         IN  IF b.markets = <<>>
             THEN CollectOutcomes(od, Tail(bookmakers))
             ELSE CollectOutcomes(AddMarket(od, b.title, b.markets[1]),
                                  Tail(bookmakers))

\* list.sort(key=price, reverse=True) is stable: x goes after every entry
\* whose price is >= its own
RECURSIVE InsertDesc(_, _)
InsertDesc(sorted, x) ==
    IF sorted = <<>> THEN <<x>>
    ELSE IF FLt(Head(sorted)[2], x[2])
         THEN <<x>> \o sorted
         ELSE <<Head(sorted)>> \o InsertDesc(Tail(sorted), x)

RECURSIVE SortDesc(_)
SortDesc(cands) ==
    IF cands = <<>> THEN <<>>
    ELSE InsertDesc(SortDesc(SubSeq(cands, 1, Len(cands) - 1)), cands[Len(cands)])

\* logic.py 125-126
SortAll(od) == [i \in 1..Len(od) |-> [od[i] EXCEPT !.cands = SortDesc(@)]]

\* logic.py 104-126
OutcomesData(match) == SortAll(CollectOutcomes(<<>>, match.bookmakers))

\* ------------------------------------------------------------------------
\* process_data: gate, cap, enumeration and emission (logic.py 128-170)
\* ------------------------------------------------------------------------
\* program constants of the combinatorial cap and of the gate
MinOutcomes == 2
CapThreshold == 3
CapKeep == 2

\* sum(1/odd for odd in ...): Python's sum starts at 0 and adds left to right
RECURSIVE SumImplied(_)
SumImplied(odds) ==
    IF odds = <<>> THEN Float(0, 1)
    ELSE FAdd(SumImplied(SubSeq(odds, 1, Len(odds) - 1)),
              FDiv(Float(1, 1), odds[Len(odds)]))

\* logic.py 134-135: the best (first) price of every outcome
BestImplied(od) == SumImplied([i \in 1..Len(od) |-> od[i].cands[1][2]])

\* a gate that looks at the worst price of every outcome
GateSkipsWorst(od) ==
    FLe(Float(1, 1), SumImplied([i \in 1..Len(od) |-> od[i].cands[Len(od[i].cands)][2]]))

\* logic.py 138: skip the match when even the best prices give no arbitrage
GateSkips(od) == FLe(Float(1, 1), BestImplied(od))

\* logic.py 145-146: keep the top CapKeep entries of a longer list
CapList(cands) ==
    IF Len(cands) > CapKeep THEN SubSeq(cands, 1, CapKeep) ELSE cands

\* a cap that already applies to matches with 3 outcomes
TruncateFromThree(od) ==
    IF Len(od) >= CapThreshold
    THEN [i \in 1..Len(od) |-> [od[i] EXCEPT !.cands = CapList(@)]]
    ELSE od

\* logic.py 142-146: the cap applies to matches with more than 3 outcomes
Truncate(od) ==
    IF Len(od) > CapThreshold
    THEN [i \in 1..Len(od) |-> [od[i] EXCEPT !.cands = CapList(@)]]
    ELSE od

\* a product in which the first list cycles fastest
RECURSIVE ProductFirstFastest(_)
ProductFirstFastest(lists) ==
    IF lists = <<>> THEN << <<>> >>
    ELSE LET rest == ProductFirstFastest(Tail(lists))
             RECURSIVE Cols(_)
             Cols(rs) ==
                 IF rs = <<>> THEN <<>>
                 ELSE [j \in 1..Len(Head(lists)) |-> <<Head(lists)[j]>> \o Head(rs)]
                      \o Cols(Tail(rs))
         IN  Cols(rest)

\* itertools.product(*lists): the last list cycles fastest
RECURSIVE Product(_)
Product(lists) ==
    IF lists = <<>> THEN << <<>> >>
    ELSE LET rest == Product(Tail(lists))
             RECURSIVE Rows(_)
             Rows(xs) ==
                 IF xs = <<>> THEN <<>>
                 ELSE [j \in 1..Len(rest) |-> <<Head(xs)>> \o rest[j]]
                      \o Rows(Tail(xs))
         IN  Rows(Head(lists))

\* logic.py 159: the implied odds of one combination
CombinationImplied(combination) ==
    SumImplied([i \in 1..Len(combination) |-> combination[i][2]])

\* a scanner that forgets the cutoff
QualifiesNoCutoff(total, cutoff) ==
    FLt(total, Float(1, 1)) /\ FLt(Float(0, 1), total)

\* a scanner that asks for strictly more than the cutoff
QualifiesStrict(total, cutoff) ==
    /\ FLt(total, Float(1, 1))
    /\ FLt(Float(0, 1), total)
    /\ FLt(cutoff, FSub(Float(1, 1), total))

\* logic.py 162: the emit condition
Qualifies(total, cutoff) ==
    /\ FLt(total, Float(1, 1))
    /\ FLt(Float(0, 1), total)
    /\ FLe(cutoff, FSub(Float(1, 1), total))

\* an opportunity that stores the total of the best-odds gate
OpportunityGateTotal(match, od, combination, reading) ==
    [match_name |-> <<match.home_team, match.away_team>>,
     match_start_time |-> match.commence_time,
     hours_to_start |-> Float(match.commence_time - reading, 3600),
     league |-> match.sport_key,
     best_outcome_odds |->
         [i \in 1..Len(od) |-> [name |-> od[i].name, pick |-> combination[i]]],
     total_implied_odds |-> BestImplied(od)]

\* logic.py 156, 163-170: the yielded dict
Opportunity(match, od, combination, reading) ==
    [match_name |-> <<match.home_team, match.away_team>>,
     match_start_time |-> match.commence_time,
     hours_to_start |-> Float(match.commence_time - reading, 3600),
     league |-> match.sport_key,
     best_outcome_odds |->
         [i \in 1..Len(od) |-> [name |-> od[i].name, pick |-> combination[i]]],
     total_implied_odds |-> CombinationImplied(combination)]

\* logic.py 152-170: the combinations of one match that are yielded, in order
Emitted(match, od, cutoff, reading) ==
    LET combos == Product([i \in 1..Len(od) |-> od[i].cands])
        good(c) == Qualifies(CombinationImplied(c), cutoff)
        kept == SelectSeq(combos, good)
    IN  [j \in 1..Len(kept) |-> Opportunity(match, od, kept[j], reading)]

\* a scanner without the check of the number of outcomes
ScanOutcomesAnyNumber(match, od, cutoff, reading) ==
    IF GateSkips(od) THEN <<>>
    ELSE Emitted(match, Truncate(od), cutoff, reading)

\* logic.py 128-170: from the sorted outcomes_data to the yielded dicts
ScanOutcomes(match, od, cutoff, reading) ==
    IF Len(od) < MinOutcomes THEN <<>>
    ELSE IF GateSkips(od) THEN <<>>
    ELSE Emitted(match, Truncate(od), cutoff, reading)

\* a filter that also skips a match starting at the very reading
FilterSkipsAtStart(match, include_started_matches, reading) ==
    ~include_started_matches /\ match.commence_time <= reading

\* logic.py 96: the start-time filter
FilterSkips(match, include_started_matches, reading) ==
    ~include_started_matches /\ match.commence_time < reading

\* the keys of a match dict that the loop body reads after the filter
BodyKeys == {"home_team", "away_team", "sport_key", "bookmakers"}

\* logic.py 94-170: one iteration of the loop over the matches, run to its
\* end: everything it yields.  The clock is read at line 96 (reading, only
\* when include_started_matches is false) and again at line 100
\* (body_reading).  A dict lacking a key that is read raises KeyError, which
\* ends the generator.
ProcessMatch(match, include_started_matches, cutoff, reading, body_reading) ==
    IF "commence_time" \notin match.keys
    THEN [raised |-> TRUE, skipped |-> FALSE, opps |-> <<>>]
    ELSE IF FilterSkips(match, include_started_matches, reading)
    THEN [raised |-> FALSE, skipped |-> TRUE, opps |-> <<>>]
    ELSE IF ~(BodyKeys \subseteq match.keys)
    THEN [raised |-> TRUE, skipped |-> FALSE, opps |-> <<>>]
    ELSE [raised |-> FALSE, skipped |-> FALSE,
          opps |-> ScanOutcomes(match, OutcomesData(match), cutoff, body_reading)]

\* ------------------------------------------------------------------------
\* Retrieved entries and the input pools
\* ------------------------------------------------------------------------
MatchKeys == {"commence_time", "home_team", "away_team", "sport_key", "bookmakers"}

Quote(name, price) == [name |-> name, price |-> price]
Book(title, markets) == [title |-> title, markets |-> markets]

\* a well-formed match dict
MatchDict(home, away, start, sport, bookmakers) ==
    [isdict |-> TRUE, keys |-> MatchKeys, commence_time |-> start,
     home_team |-> home, away_team |-> away, sport_key |-> sport,
     bookmakers |-> bookmakers]

\* an error envelope {"message": ...}
Envelope ==
    [isdict |-> TRUE, keys |-> {"message"}, commence_time |-> 0,
     home_team |-> "", away_team |-> "", sport_key |-> 0, bookmakers |-> <<>>]

\* an entry that is no dict (a string: iterating a top-level envelope
\* yields its keys)
NonDict == [Envelope EXCEPT !.isdict = FALSE, !.keys = {}]

\* a dict without "message" that lacks one key of a match
Lacking(match, key) == [match EXCEPT !.keys = @ \ {key}]

\* bounds of the inputs
MaxOutcomes == 4
MaxMatches == 2
MaxClock == 1
MaxSports == 6
MaxCatalog == 2
\* calls with at most this many sports are run against every source and
\* cutoff; the longer ones, which are there for the interleavings of the
\* pool, against the source with one match per sport and cutoff 0
FewSports == 3

Names == <<"Home", "Away", "Draw", "Other", "Void", "Tie">>
Titles == <<"X", "Y", "Z">>
DensePrices == {Float(2, 1), Float(4, 1), Float(8, 1)}
Cutoffs == {Float(0, 1), Float(1, 4)}

BestPrice == Float(8, 1)

\* the quotes of one bookmaker for k outcomes: the best price for outcome
\* hot, lo for the others (hot = 0: lo for all)
Row(k, lo, hot) == [i \in 1..k |-> IF i = hot THEN BestPrice ELSE lo]

\* a bookmaker quoting one price for every outcome
FlatRows(k) == { Row(k, lo, 0) : lo \in DensePrices }

Rows(k) ==
    FlatRows(k)
    \cup { Row(k, lo, hot) : lo \in DensePrices \ {BestPrice}, hot \in 1..k }

\* the quotes of b bookmakers for k outcomes: any row for the first, one
\* price throughout for each of the others
DenseQuotes(k, b) ==
    { f \in [1..b -> Rows(k)] : \A j \in 2..b : f[j] \in FlatRows(k) }

\* the match in which bookmaker j quotes price f[j][i] for outcome i
DenseMatch(k, b, f) ==
    MatchDict("H", "A", 1, 1,
        [j \in 1..b |->
            Book(Titles[j], << [i \in 1..k |-> Quote(Names[i], f[j][i])] >>)])

\* the spec's scenario: 2.50 at X and 2.20 at Y give 0.8545
ArbMatch(sport, start) ==
    MatchDict("H", "A", start, sport,
        << Book("X", << <<Quote("Home", Float(5, 2)), Quote("Away", Float(9, 5))>> >>),
           Book("Y", << <<Quote("Home", Float(2, 1)), Quote("Away", Float(11, 5))>> >>) >>)

\* best prices 2 and 2: implied odds 1, no arbitrage
NoArbMatch(sport, start) ==
    MatchDict("H", "B", start, sport,
        << Book("X", << <<Quote("Home", Float(2, 1)), Quote("Away", Float(2, 1))>> >>) >>)

\* a bookmaker without markets, one whose second market is ignored, one
\* quoting a single outcome, outcomes first seen in the order Away, Home, Draw
ShapedMatch(sport, start) ==
    MatchDict("H", "C", start, sport,
        << Book("W", <<>>),
           Book("X", << <<Quote("Away", Float(4, 1)), Quote("Home", Float(3, 1))>>,
                        <<Quote("Home", Float(9, 1)), Quote("Away", Float(9, 1))>> >>),
           Book("Y", << <<Quote("Draw", Float(4, 1)), Quote("Home", Float(4, 1)),
                          Quote("Away", Float(3, 1))>> >>),
           Book("Z", << <<Quote("Draw", Float(5, 2))>> >>) >>)

\* a single outcome name: fewer than 2 outcomes
OneOutcomeMatch(sport, start) ==
    MatchDict("H", "D", start, sport,
        << Book("X", << <<Quote("Home", Float(5, 1))>> >>),
           Book("Y", << <<Quote("Home", Float(4, 1))>> >>) >>)

\* prices 2, 3 and 6: the implied odds are 1 in exact arithmetic and
\* 1 - 2^-53 as the floats are added
RoundedMatch(sport, start) ==
    MatchDict("H", "E", start, sport,
        << Book("X", << <<Quote("Home", Float(2, 1)), Quote("Away", Float(3, 1)),
                          Quote("Draw", Float(6, 1))>> >>) >>)

\* prices 2, 12, 12 and 12: the margin is 1/4 in exact arithmetic and
\* just below it as the floats are added
MarginMatch(sport, start) ==
    MatchDict("H", "F", start, sport,
        << Book("X", << <<Quote("Home", Float(2, 1)), Quote("Away", Float(12, 1)),
                          Quote("Draw", Float(12, 1)), Quote("Other", Float(12, 1))>> >>) >>)

\* one bookmaker quoting 4 on either outcome: one arbitrage
EvenMatch(sport, start) ==
    MatchDict("H", "G", start, sport,
        << Book("X", << <<Quote("Home", Float(4, 1)), Quote("Away", Float(4, 1))>> >>) >>)

\* the matches of which sequences are scanned
MatchPool ==
    { ArbMatch(1, 0), ShapedMatch(3, 1), OneOutcomeMatch(4, 1),
      Lacking(ArbMatch(5, 0), "commence_time") }

\* the matches that are scanned alone
EdgePool ==
    { ArbMatch(1, 1), NoArbMatch(2, 1), ShapedMatch(3, 0), RoundedMatch(6, 1),
      MarginMatch(7, 1), Lacking(ArbMatch(5, 1), "bookmakers") }

SeqsUpTo(S, n) == UNION { [1..m -> S] : m \in 0..n }

\* ------------------------------------------------------------------------
\* State
\* ------------------------------------------------------------------------
VARIABLES
    entry_point,        \* the function that was called
    pc,                 \* where the call is
    selected_sports,    \* get_arbitrage_opportunities: its argument
    world,              \* what the Market Data Source holds
    sports,             \* logic.py 187-190
    task,               \* per position: the future is "queued" (pending),
                        \* "running", "done" or "cancelled"
    work_item,               \* per position: the work item is in the "queue",
                        \* with a "worker", or "gone"
    cancel_next,        \* the future map's result iterator cancels next
    issued,             \* per position: odds requests sent so far
    status,             \* per position: the answer the request got
    results,            \* per position: the slot of executor.map
    catalog_calls,      \* catalog requests sent so far
    catalog_status,     \* the answer the catalog request got
    data,               \* the entries the generator pipeline draws from
    idx,                \* entries whose iteration is over
    filter_reading,     \* the clock when line 96 ran for the current match
    body_reading,       \* time.time() at line 100 for the current match
    pending,            \* what the current iteration has yet to yield
    yielded,            \* what the current iteration has yielded
    emitted,            \* the opportunities yielded so far
    log,                \* per entry handed to the scanner: what it did
    dropped,            \* entries the filter discarded
    inflight_scans,     \* entries examined while a retrieval was in flight
    cutoff,
    include_started_matches,
    now,                \* time.time()
    outcome,            \* "none", "returned" or "raised"
    exc,                \* the exception that reached the caller
    returned,           \* the value returned
    odds_dict,          \* calculate_bankroll_allocation: its arguments
    total_implied_odds,
    bankroll,
    allocations,        \* and its results
    total_percentage,
    warned,
    api_key,            \* ArbitrageFinderGUI: the text of api_key_input
    search_button,      \* the Find Opportunities button is enabled
    export_button,      \* the Export Results button is enabled
    sports_list,        \* the items of the sports list
    sports_loader,      \* the SportsLoaderWorker threads started so far
    worker,             \* the ArbitrageWorker threads started so far
    events,             \* signals queued for the GUI thread
    results_text,       \* the search whose results the view shows
    opportunities,      \* self.opportunities
    selected_items,     \* the rows of the sports list that are selected
    select_all_sports,  \* the Select All box is ticked
    show_bankroll_alloc, \* the Show Bankroll Allocation box is ticked
    exported,           \* the file export_results wrote last
    file_dialog         \* the Export Results file dialog is open

orch_vars == <<selected_sports, world, sports, task, work_item, cancel_next, issued, status,
               results, catalog_calls, catalog_status>>
scan_vars == <<data, idx, filter_reading, body_reading, pending, yielded, emitted,
              log, dropped, inflight_scans>>
arg_vars == <<cutoff, include_started_matches>>
end_vars == <<outcome, exc, returned>>
alloc_vars == <<odds_dict, total_implied_odds, bankroll, allocations,
                total_percentage, warned>>
gui_vars == <<api_key, search_button, export_button, sports_list, sports_loader,
              worker, events, results_text, opportunities, selected_items,
              select_all_sports, show_bankroll_alloc, exported, file_dialog>>
vars == <<entry_point, pc, orch_vars, scan_vars, arg_vars, now, end_vars, alloc_vars,
          gui_vars>>

NoOrch ==
    /\ selected_sports = <<>>
    /\ world = [data |-> 0, catalog |-> 0, odds |-> 1, listing |-> 1]
    /\ sports = <<>>
    /\ task = <<>> /\ work_item = <<>> /\ cancel_next = 0
    /\ issued = <<>> /\ status = <<>> /\ results = <<>>
    /\ catalog_calls = 0 /\ catalog_status = 0

\* the generator has not looked at a match yet
NoIteration ==
    /\ idx = 0 /\ filter_reading = 0 /\ body_reading = 0
    /\ pending = <<>> /\ yielded = <<>> /\ emitted = <<>> /\ log = <<>>
    /\ dropped = <<>> /\ inflight_scans = 0

NoScan == data = <<>> /\ NoIteration

NoEnd == outcome = "none" /\ exc = "none" /\ returned = <<>>

\* what the search leaves in self.opportunities: nothing yet
NoOpportunities == [search |-> 0, list |-> <<>>]

\* no file was written
NoExport == [format |-> "none", show_allocation |-> FALSE, rows |-> <<>>]

NoGui ==
    /\ api_key = "" /\ search_button = FALSE /\ export_button = FALSE
    /\ sports_list = <<>> /\ sports_loader = <<>> /\ worker = <<>>
    /\ events = <<>> /\ results_text = 0 /\ opportunities = NoOpportunities
    /\ selected_items = {} /\ select_all_sports = TRUE /\ show_bankroll_alloc = TRUE
    /\ exported = NoExport /\ file_dialog = FALSE

NoAlloc ==
    /\ odds_dict = <<>> /\ total_implied_odds = Float(1, 1) /\ bankroll = Float(0, 1)
    /\ allocations = <<>> /\ total_percentage = Float(0, 1) /\ warned = FALSE

\* process_data(matches, include_started_matches, cutoff) called with one
\* match in which every bookmaker quotes every outcome, at the latest
\* reading of the clock
InitDense ==
    /\ entry_point = "process_data" /\ pc = "scan"
    /\ NoGui
    /\ NoOrch /\ NoEnd /\ NoAlloc
    /\ \E k \in 1..MaxOutcomes, b \in 1..Len(Titles) :
         \E f \in DenseQuotes(k, b) :
            data = << DenseMatch(k, b, f) >>
    /\ NoIteration
    /\ cutoff \in Cutoffs
    /\ include_started_matches = TRUE
    /\ now = MaxClock

\* process_data called with a sequence of matches of the pool
InitShapes ==
    /\ entry_point = "process_data" /\ pc = "scan"
    /\ NoGui
    /\ NoOrch /\ NoEnd /\ NoAlloc
    /\ data \in SeqsUpTo(MatchPool, MaxMatches) \cup { <<m>> : m \in EdgePool }
    /\ NoIteration
    /\ cutoff \in Cutoffs
    /\ include_started_matches \in BOOLEAN
    /\ now = 0

InitScan == InitDense \/ InitShapes

\* ------------------------------------------------------------------------
\* The generator pipeline: filter (logic.py 201) and process_data (94-170)
\* ------------------------------------------------------------------------
\* logic.py 201: lambda x: isinstance(x, dict) and "message" not in x
IsMatchRecord(x) == x.isdict /\ "message" \notin x.keys

Running == {i \in 1..Len(task) : task[i] = "running"}

\* the filter of get_arbitrage_opportunities discards the next entry
FilterDrop ==
    /\ pc = "scan"
    /\ entry_point = "get_arbitrage_opportunities"
    /\ idx < Len(data)
    /\ ~IsMatchRecord(data[idx + 1])
    /\ idx' = idx + 1
    /\ dropped' = Append(dropped, data[idx + 1])
    /\ UNCHANGED <<gui_vars, entry_point, pc, orch_vars, data, filter_reading,
                   body_reading, pending, yielded, emitted, log, inflight_scans,
                   arg_vars, now, end_vars, alloc_vars>>

\* what the log keeps of one iteration
LogEntry(match, reading, reading2, raised, skipped, opps) ==
    [match |-> match, reading |-> reading, body_reading |-> reading2,
     raised |-> raised, skipped |-> skipped, opps |-> opps]

\* KeyError leaves the generator and reaches whoever drives it
RaiseKeyError ==
    /\ pc' = "done"
    /\ outcome' = "raised"
    /\ exc' = "KeyError"

\* logic.py 94-97: the loop draws the next match, reads commence_time and,
\* unless started matches are included, the clock
ExamineMatch ==
    /\ pc = "scan"
    /\ idx < Len(data)
    /\ entry_point = "get_arbitrage_opportunities" => IsMatchRecord(data[idx + 1])
    /\ LET match == data[idx + 1]
       IN  /\ inflight_scans' = inflight_scans + (IF Running = {} THEN 0 ELSE 1)
           /\ filter_reading' = now
           /\ IF "commence_time" \notin match.keys
              THEN /\ RaiseKeyError
                   /\ idx' = idx + 1
                   /\ log' = Append(log, LogEntry(match, now, now, TRUE, FALSE, <<>>))
              ELSE IF FilterSkips(match, include_started_matches, now)
              THEN /\ idx' = idx + 1
                   /\ log' = Append(log, LogEntry(match, now, now, FALSE, TRUE, <<>>))
                   /\ UNCHANGED <<pc, outcome, exc>>
              ELSE /\ pc' = "body"
                   /\ UNCHANGED <<idx, log, outcome, exc>>
    /\ UNCHANGED <<gui_vars, entry_point, orch_vars, data, body_reading, pending, yielded,
                   emitted, dropped, arg_vars, now, returned, alloc_vars>>

\* logic.py 99-152: the names, the second reading of the clock, the
\* outcomes, the gate and the cap; the generator then walks the product
ScanBody ==
    /\ pc = "body"
    /\ LET match == data[idx + 1]
       IN  IF ~(BodyKeys \subseteq match.keys)
           THEN /\ RaiseKeyError
                /\ idx' = idx + 1
                /\ log' = Append(log, LogEntry(match, filter_reading, now, TRUE, FALSE, <<>>))
                /\ UNCHANGED <<body_reading, pending, yielded>>
           ELSE /\ pc' = "yield"
                /\ body_reading' = now
                /\ pending' = ScanOutcomes(match, OutcomesData(match), cutoff, now)
                /\ yielded' = <<>>
                /\ UNCHANGED <<idx, log, outcome, exc>>
    /\ UNCHANGED <<gui_vars, entry_point, orch_vars, data, filter_reading, emitted, dropped,
                   inflight_scans, arg_vars, now, returned, alloc_vars>>

\* logic.py 163-170: the generator hands out the next qualifying combination
\* and is suspended until it is asked again
Yield ==
    /\ pc = "yield"
    /\ pending # <<>>
    /\ emitted' = Append(emitted, Head(pending))
    /\ yielded' = Append(yielded, Head(pending))
    /\ pending' = Tail(pending)
    /\ UNCHANGED <<gui_vars, entry_point, pc, orch_vars, data, idx, filter_reading,
                   body_reading, log, dropped, inflight_scans, arg_vars, now, end_vars,
                   alloc_vars>>

\* logic.py 154: the product is exhausted, the loop goes to the next match
EndMatch ==
    /\ pc = "yield"
    /\ pending = <<>>
    /\ pc' = "scan"
    /\ idx' = idx + 1
    /\ log' = Append(log, LogEntry(data[idx + 1], filter_reading, body_reading,
                                   FALSE, FALSE, yielded))
    /\ yielded' = <<>>
    /\ UNCHANGED <<gui_vars, entry_point, orch_vars, data, filter_reading, body_reading,
                   pending, emitted, dropped, inflight_scans, arg_vars, now, end_vars,
                   alloc_vars>>

\* the pipeline is exhausted: list(...) returns (logic.py 207), or the
\* generator of a direct call ends
Return ==
    /\ pc = "scan"
    /\ idx = Len(data)
    /\ pc' = "done"
    /\ outcome' = "returned"
    /\ returned' = emitted
    /\ UNCHANGED <<gui_vars, entry_point, orch_vars, scan_vars, arg_vars, now, exc, alloc_vars>>

\* time passes before a reading of time.time(): before line 100, and before
\* line 96 when the filter reads the clock
Tick ==
    /\ pc = "body" \/ (pc = "scan" /\ ~include_started_matches)
    /\ idx < Len(data)
    /\ now < MaxClock
    /\ now' = now + 1
    /\ UNCHANGED <<gui_vars, entry_point, pc, orch_vars, scan_vars, arg_vars, end_vars,
                   alloc_vars>>

\* process_data driven by a consumer that asks for everything
Scan == ExamineMatch \/ ScanBody \/ Yield \/ EndMatch

NextScan == Scan \/ Return \/ Tick

SpecScan == InitScan /\ [][NextScan]_vars

\* ------------------------------------------------------------------------
\* The Market Data Source
\* ------------------------------------------------------------------------
\* strings that the code takes apart are sequences of characters
Soccer == <<"s", "o", "c", "c", "e", "r">>
Basketball == <<"b", "a", "s", "k", "e", "t", "b", "a", "l", "l">>
Baseball == <<"b", "a", "s", "e", "b", "a", "l", "l">>
Football == <<"f", "o", "o", "t", "b", "a", "l", "l">>
Tennis == <<"t", "e", "n", "n", "i", "s">>
Hockey == <<"h", "o", "c", "k", "e", "y">>
Cricket == <<"c", "r", "i", "c", "k", "e", "t">>
IceHockey == <<"i", "c", "e">> \o Hockey
AmericanFootball == <<"a", "m", "e", "r", "i", "c", "a", "n">> \o Football
SoccerCapital == <<"S">> \o Tail(Soccer)

Digits == <<"0", "1", "2", "3", "4", "5", "6", "7", "8", "9">>

\* a sport key such as "soccer_1"
SportKey(family, n) == family \o <<"_", Digits[n + 1]>>

\* the number a sport key ends with
SportNumber(sport) == (CHOOSE k \in 1..Len(Digits) : Digits[k] = sport[Len(sport)]) - 1

\* what the source holds for a sport, in each of its states (world.data):
\* 1: well-formed matches only; 2: error envelopes, entries that are no
\* dicts and dicts lacking a key among the matches; 3: one match with one
\* arbitrage for every sport
ServerData(w, sport) ==
    IF w = 3 THEN << EvenMatch(sport, 1) >>
    ELSE IF w = 1
    THEN IF SportNumber(sport) % 2 = 1
         THEN << ArbMatch(sport, 1) >>
         ELSE << NoArbMatch(sport, 1), ArbMatch(sport, 0) >>
    ELSE IF SportNumber(sport) % 2 = 1
         THEN << Envelope, ArbMatch(sport, 1) >>
         ELSE IF SportNumber(sport) = 2
         THEN << NonDict, ArbMatch(sport, 1), Lacking(ArbMatch(sport, 1), "bookmakers") >>
         ELSE IF SportNumber(sport) = 4
         THEN << Lacking(ArbMatch(sport, 1), "commence_time") >>
         ELSE << NonDict, NonDict >>

Worlds == {1, 2, 3}

\* an item of the catalog; a key that the item lacks reads as FALSE
\* (item.get("has_outrights") == True, item.get("active", False))
CatalogItem(key, has_outrights, active) ==
    [key |-> key, has_outrights |-> has_outrights, active |-> active]

\* the sports of the catalog behind a sport that is not popular and an
\* inactive outright: an active outright spelled with a capital, and keys
\* that hold a popular word inside
Listed ==
    << CatalogItem(SportKey(IceHockey, 1), FALSE, TRUE),
       CatalogItem(SportKey(SoccerCapital, 2), TRUE, TRUE),
       CatalogItem(SportKey(AmericanFootball, 3), FALSE, FALSE),
       CatalogItem(SportKey(Tennis, 4), FALSE, TRUE) >>

\* the catalog with m of the listed sports
Catalog(m) ==
    IF m = 0 THEN <<>>
    ELSE << CatalogItem(SportKey(Cricket, 8), FALSE, TRUE),
            CatalogItem(SportKey(Soccer, 9), TRUE, FALSE) >>
         \o SubSeq(Listed, 1, m)

\* an answer of the source: its status and what its body is: "payload"
\* (the JSON the endpoint serves), "message" (a JSON object with a
\* "message"), "object" (a JSON object without one) or "text" (no JSON)
Response(status_code, body) == [status_code |-> status_code, body |-> body]

\* requests.Response.ok: the status is no client or server error
Ok(response) == ~(400 <= response.status_code /\ response.status_code < 600)

\* the answers to the catalog request, one per state of the source
\* (world.listing)
CatalogResponses ==
    << Response(200, "payload"), Response(204, "payload"), Response(401, "message"),
       Response(429, "message"), Response(500, "object"), Response(502, "text") >>

CatalogResponse(w) == CatalogResponses[w.listing]

\* the answers to the odds request of a sport, in each state of the
\* source (world.odds): 1: every sport is served; 2: the credential is
\* rejected for the first two sports, the third and the fourth fail
\* otherwise; 3: failures with and without a printable body among served
\* sports; 4: the credential is rejected for the first two sports, with
\* a JSON body that has no message and with a body that is no JSON
OddsResponse(w, sport) ==
    LET n == SportNumber(sport)
    IN  CASE w.odds = 1 -> Response(200, "payload")
          [] w.odds = 2 ->
               IF n <= 2 THEN Response(401, "message")
               ELSE IF n = 3 THEN Response(500, "message")
               ELSE IF n = 4 THEN Response(429, "message")
               ELSE Response(200, "payload")
          [] w.odds = 3 ->
               IF n = 1 THEN Response(204, "payload")
               ELSE IF n = 2 THEN Response(401, "message")
               ELSE IF n = 4 THEN Response(500, "object")
               ELSE IF n = 5 THEN Response(502, "text")
               ELSE Response(200, "payload")
          [] OTHER ->
               IF n = 1 THEN Response(401, "object")
               ELSE IF n = 2 THEN Response(401, "text")
               ELSE Response(200, "payload")

OddsStates == 1..4

\* ------------------------------------------------------------------------
\* Requests (logic.py 16-87)
\* ------------------------------------------------------------------------
Returns(value) == [raised |-> FALSE, exc |-> "none", value |-> value]
Raises(exception) == [raised |-> TRUE, exc |-> exception, value |-> <<>>]

\* logic.py 16-18: str() of an APIException reads the "message" of the
\* response's JSON body
APIException_str(response) ==
    IF response.body = "message" THEN Returns(<<>>)
    ELSE IF response.body = "text" THEN Raises("ValueError")
    ELSE Raises("KeyError")

\* a handler that reports a rejected credential as a generic failure
handle_faulty_response_untyped(status_code) ==
    IF status_code = 429 THEN "RateLimitException" ELSE "APIException"

\* logic.py 29-35: the exception raised for a response that is not ok
handle_faulty_response(status_code) ==
    IF status_code = 401 THEN "AuthenticationException"
    ELSE IF status_code = 429 THEN "RateLimitException"
    ELSE "APIException"

\* logic.py 49
popular_sports == <<Soccer, Basketball, Baseball, Football, Tennis, Hockey>>

\* str.lower() on the letters that occur in capitals
Lower(c) == IF c = "S" THEN "s" ELSE c
lower(s) == [i \in 1..Len(s) |-> Lower(s[i])]

\* word in s
Contains(word, s) ==
    \E k \in 0..(Len(s) - Len(word)) : SubSeq(s, k + 1, k + Len(word)) = word

\* logic.py 52-59: the catalog items that are kept
KeptItem(item) ==
    /\ ~(item.has_outrights /\ ~item.active)
    /\ \E p \in 1..Len(popular_sports) : Contains(popular_sports[p], lower(item.key))

\* a catalog request whose failure is answered by an empty list of sports
get_sports_lenient(response, catalog) ==
    IF ~Ok(response)
    THEN Returns(<<>>)
    ELSE LET kept == SelectSeq(catalog, KeptItem)
         IN  Returns([i \in 1..Len(kept) |-> kept[i].key])

\* logic.py 38-61
get_sports(response, catalog) ==
    IF ~Ok(response)
    THEN Raises(handle_faulty_response(response.status_code))
    ELSE LET kept == SelectSeq(catalog, KeptItem)
         IN  Returns([i \in 1..Len(kept) |-> kept[i].key])

\* logic.py 64-78
get_data(response, w, sport) ==
    IF ~Ok(response)
    THEN Raises(handle_faulty_response(response.status_code))
    ELSE Returns(ServerData(w, sport))

\* a task that lets the exception of get_data through
fetch_sport_data_uncaught(response, w, sport) == get_data(response, w, sport)

\* logic.py 81-87: an exception of get_data is printed and replaced by [];
\* printing it calls str() on it, whose exception leaves the task
fetch_sport_data(response, w, sport) ==
    LET r == get_data(response, w, sport)
    IN  IF ~r.raised THEN r
        ELSE IF APIException_str(response).raised THEN APIException_str(response)
        ELSE Returns(<<>>)

\* ------------------------------------------------------------------------
\* get_arbitrage_opportunities (logic.py 173-207)
\* ------------------------------------------------------------------------
max_workers == 5

EmptySlot == [filled |-> FALSE, raised |-> FALSE, exc |-> "none", value |-> <<>>]

\* logic.py 187-194 with a list of sports given: the list is the list of
\* sports of the call and the pool is created; no work item is queued yet
CallWithSports ==
    /\ pc = "call"
    /\ selected_sports # <<>>
    /\ sports' = selected_sports
    /\ pc' = "submit"
    /\ UNCHANGED <<gui_vars, entry_point, selected_sports, world, task, work_item,
                   cancel_next, issued, status, results, catalog_calls, catalog_status,
                   scan_vars, arg_vars, now, end_vars, alloc_vars>>

\* logic.py 187-194 with selected_sports None or empty: the catalog is
\* requested; a failure of that request reaches the caller, an answer is
\* the list of sports of the call (an empty one leaves nothing to submit)
CallResolveCatalog ==
    /\ pc = "call"
    /\ selected_sports = <<>>
    /\ LET r == get_sports(CatalogResponse(world), Catalog(world.catalog))
       IN  /\ catalog_calls' = catalog_calls + 1
           /\ catalog_status' = CatalogResponse(world).status_code
           /\ IF r.raised
              THEN /\ pc' = "done"
                   /\ outcome' = "raised"
                   /\ exc' = r.exc
                   /\ UNCHANGED sports
              ELSE /\ sports' = r.value
                   /\ pc' = IF r.value = <<>> THEN "dispatch" ELSE "submit"
                   /\ UNCHANGED <<outcome, exc>>
    /\ UNCHANGED <<gui_vars, entry_point, selected_sports, world, task, work_item,
                   cancel_next, issued, status, results, scan_vars, arg_vars, now,
                   returned, alloc_vars>>

\* logic.py 195: executor.map submits the sports one by one, in their
\* order (fs = [self.submit(fn, *args) for args in zip(*iterables)]); one
\* submit makes the future of the next sport and puts its work item into
\* the queue, while the workers already go on with the items before it.
\* After the last submit list(...) turns to the results
Submit ==
    /\ pc = "submit"
    /\ Len(task) < Len(sports)
    /\ task' = Append(task, "queued")
    /\ work_item' = Append(work_item, "queue")
    /\ issued' = Append(issued, 0)
    /\ status' = Append(status, 0)
    /\ results' = Append(results, EmptySlot)
    /\ pc' = IF Len(task) + 1 = Len(sports) THEN "dispatch" ELSE "submit"
    /\ UNCHANGED <<gui_vars, entry_point, selected_sports, world, sports, cancel_next,
                   catalog_calls, catalog_status, scan_vars, arg_vars, now, end_vars,
                   alloc_vars>>

\* the work items that a worker thread holds
Busy == {i \in 1..Len(work_item) : work_item[i] = "worker"}

\* a pool that lets one more worker run
PoolHasRoomOffByOne == Cardinality(Busy) <= max_workers

\* ThreadPoolExecutor(max_workers=5): a worker is free to take a work item.
\* A submit starts a new thread unless an idle one is signalled or five
\* exist, so below five threads there are at least as many threads as
\* unfinished work items: only the limit of five ever keeps an item waiting
PoolHasRoom == Cardinality(Busy) < max_workers

\* the executor works from the first submit on: while executor.map still
\* submits, while list(...) waits for results or cancels futures, and
\* until the with block is left
PoolAtWork == pc \in {"submit", "dispatch", "cancel"}

\* a worker takes the oldest work item off the queue (work_queue.get);
\* an item whose future was cancelled is still in the queue
TakeWorkItem(i) ==
    /\ PoolAtWork
    /\ work_item[i] = "queue"
    /\ \A j \in 1..(i - 1) : work_item[j] # "queue"
    /\ PoolHasRoom
    /\ work_item' = [work_item EXCEPT ![i] = "worker"]
    /\ UNCHANGED <<gui_vars, entry_point, pc, selected_sports, world, sports, task,
                   cancel_next, issued, status, results, catalog_calls, catalog_status,
                   scan_vars, arg_vars, now, end_vars, alloc_vars>>

\* _WorkItem.run: under the lock of the future the worker marks it
\* running, or finds it cancelled and lets the work item go
set_running_or_notify_cancel(i) ==
    /\ PoolAtWork
    /\ work_item[i] = "worker"
    /\ \/ /\ task[i] = "queued"
          /\ task' = [task EXCEPT ![i] = "running"]
          /\ UNCHANGED work_item
       \/ /\ task[i] = "cancelled"
          /\ work_item' = [work_item EXCEPT ![i] = "gone"]
          /\ UNCHANGED task
    /\ UNCHANGED <<gui_vars, entry_point, pc, selected_sports, world, sports,
                   cancel_next, issued, status, results, catalog_calls, catalog_status,
                   scan_vars, arg_vars, now, end_vars, alloc_vars>>

\* fetch_sport_data is called and get_data sends the request (logic.py 74)
SendRequest(i) ==
    /\ PoolAtWork
    /\ task[i] = "running"
    /\ issued[i] = 0
    /\ issued' = [issued EXCEPT ![i] = @ + 1]
    /\ UNCHANGED <<gui_vars, entry_point, pc, selected_sports, world, sports, task, work_item,
                   cancel_next, status, results, catalog_calls, catalog_status,
                   scan_vars, arg_vars, now, end_vars, alloc_vars>>

\* a completion that puts its result into the first slot still empty
CompleteTaskArrivalSlot(i) ==
    /\ PoolAtWork
    /\ task[i] = "running"
    /\ issued[i] = 1
    /\ LET r == fetch_sport_data(OddsResponse(world, sports[i]), world.data, sports[i])
           k == CHOOSE k \in 1..Len(results) :
                   /\ ~results[k].filled
                   /\ \A j \in 1..(k - 1) : results[j].filled
       IN  /\ status' = [status EXCEPT ![i] = OddsResponse(world, sports[i]).status_code]
           /\ results' = [results EXCEPT ![k] =
                             [filled |-> TRUE, raised |-> r.raised,
                              exc |-> r.exc, value |-> r.value]]
    /\ task' = [task EXCEPT ![i] = "done"]
    /\ work_item' = [work_item EXCEPT ![i] = "gone"]
    /\ UNCHANGED <<gui_vars, entry_point, pc, selected_sports, world, sports, cancel_next,
                   issued, catalog_calls, catalog_status, scan_vars, arg_vars, now,
                   end_vars, alloc_vars>>

\* the request of a running task is answered; what fetch_sport_data
\* returns or raises fills the task's slot (set_result, set_exception)
CompleteTask(i) ==
    /\ PoolAtWork
    /\ task[i] = "running"
    /\ issued[i] = 1
    /\ LET r == fetch_sport_data(OddsResponse(world, sports[i]), world.data, sports[i])
       IN  /\ status' = [status EXCEPT ![i] = OddsResponse(world, sports[i]).status_code]
           /\ results' = [results EXCEPT ![i] =
                             [filled |-> TRUE, raised |-> r.raised,
                              exc |-> r.exc, value |-> r.value]]
    /\ task' = [task EXCEPT ![i] = "done"]
    /\ work_item' = [work_item EXCEPT ![i] = "gone"]
    /\ UNCHANGED <<gui_vars, entry_point, pc, selected_sports, world, sports, cancel_next,
                   issued, catalog_calls, catalog_status, scan_vars, arg_vars, now,
                   end_vars, alloc_vars>>

\* a caller that goes on as soon as the first slot is filled
MapCompleteFirstOnly == \A i \in 1..Len(task) : i = 1 => task[i] = "done"

\* logic.py 193-195: list(executor.map(...)) inside the with block returns
\* when every task is done
MapComplete == \A i \in 1..Len(task) : task[i] = "done"

\* chain.from_iterable(results) (logic.py 198)
RECURSIVE Flatten(_)
Flatten(slots) ==
    IF slots = <<>> THEN <<>>
    ELSE Head(slots).value \o Flatten(Tail(slots))

RaisedSlots == {i \in 1..Len(results) : results[i].raised}

\* the slot whose exception list(executor.map(...)) meets: the results are
\* taken in the order of the sports, each when its task is done
MetRaised ==
    {i \in RaisedSlots : \A j \in 1..(i - 1) : task[j] = "done" /\ ~results[j].raised}

\* logic.py 195-204: every task returned; the results are collected and
\* the lazy pipeline chain -> filter -> process_data is set up.
\* process_data(data, cutoff=cutoff) hands over no include_started_matches,
\* which binds the parameter to its default (logic.py 90)
Collect ==
    /\ pc = "dispatch"
    /\ Len(task) = Len(sports)
    /\ MapComplete
    /\ RaisedSlots = {}
    /\ pc' = "scan"
    /\ data' = Flatten(results)
    /\ include_started_matches' = TRUE
    /\ UNCHANGED <<gui_vars, entry_point, orch_vars, idx, filter_reading, body_reading,
                   pending, yielded, emitted, log, dropped, inflight_scans, cutoff,
                   now, end_vars, alloc_vars>>

\* logic.py 195: list(executor.map(...)) meets the exception of a task;
\* the result iterator turns to the futures it has not handed out, the
\* last one first
MeetRaised ==
    /\ pc = "dispatch"
    /\ MetRaised # {}
    /\ pc' = "cancel"
    /\ cancel_next' = Len(task)
    /\ UNCHANGED <<gui_vars, entry_point, selected_sports, world, sports, task, work_item,
                   issued, status, results, catalog_calls, catalog_status, scan_vars,
                   arg_vars, now, end_vars, alloc_vars>>

\* one future.cancel() of the result iterator, under the lock of that
\* future: a pending future becomes cancelled, a running or finished one
\* is left as it is
CancelFuture ==
    /\ pc = "cancel"
    /\ \E m \in MetRaised : cancel_next > m
    /\ task' = [task EXCEPT ![cancel_next] = IF @ = "queued" THEN "cancelled" ELSE @]
    /\ cancel_next' = cancel_next - 1
    /\ UNCHANGED <<gui_vars, entry_point, pc, selected_sports, world, sports, work_item,
                   issued, status, results, catalog_calls, catalog_status, scan_vars,
                   arg_vars, now, end_vars, alloc_vars>>

\* logic.py 193-195: the futures are cancelled and the with block is left
\* (shutdown waits until the workers have emptied the queue and ended);
\* the exception of the task reaches the caller
RaiseFromTask ==
    /\ pc = "cancel"
    /\ cancel_next \in MetRaised
    /\ \A i \in 1..Len(work_item) : work_item[i] = "gone"
    /\ pc' = "done"
    /\ outcome' = "raised"
    /\ exc' = results[cancel_next].exc
    /\ UNCHANGED <<gui_vars, entry_point, orch_vars, scan_vars, arg_vars, now, returned,
                   alloc_vars>>

\* the states of the source
Sources(catalogs, listings) ==
    { [data |-> w, catalog |-> m, odds |-> o, listing |-> l] :
        w \in Worlds, m \in catalogs, o \in OddsStates, l \in listings }

\* get_arbitrage_opportunities(key, region, cutoff, selected_sports); the
\* parameter include_started_matches of process_data is bound only at
\* logic.py 204, so the call starts with either value in its place
Init ==
    /\ entry_point = "get_arbitrage_opportunities" /\ pc = "call"
    /\ NoGui
    /\ \E n \in 0..MaxSports :
          /\ selected_sports = [i \in 1..n |-> SportKey(Soccer, i)]
          /\ world \in IF n = 0
                       THEN Sources(0..MaxCatalog, 1..Len(CatalogResponses))
                       ELSE IF n <= FewSports THEN Sources({0}, {1})
                       ELSE {w \in Sources({0}, {1}) : w.data = 3}
          /\ cutoff \in IF n <= FewSports THEN Cutoffs ELSE {Float(0, 1)}
          /\ include_started_matches \in IF n <= FewSports THEN BOOLEAN ELSE {FALSE}
    /\ sports = <<>> /\ task = <<>> /\ issued = <<>> /\ status = <<>>
    /\ work_item = <<>> /\ cancel_next = 0
    /\ results = <<>> /\ catalog_calls = 0 /\ catalog_status = 0
    /\ NoScan /\ NoEnd /\ NoAlloc
    /\ now = 0

Next ==
    \/ CallWithSports
    \/ CallResolveCatalog
    \/ Submit
    \/ \E i \in 1..Len(task) : TakeWorkItem(i)
    \/ \E i \in 1..Len(task) : set_running_or_notify_cancel(i)
    \/ \E i \in 1..Len(task) : SendRequest(i)
    \/ \E i \in 1..Len(task) : CompleteTask(i)
    \/ Collect
    \/ MeetRaised
    \/ CancelFuture
    \/ RaiseFromTask
    \/ FilterDrop
    \/ ExamineMatch
    \/ ScanBody
    \/ Yield
    \/ EndMatch
    \/ Return
    \/ Tick

Spec == Init /\ [][Next]_vars

\* ------------------------------------------------------------------------
\* process_data called directly and through get_arbitrage_opportunities
\* ------------------------------------------------------------------------
\* get_arbitrage_opportunities with at most two sports (or the catalog of
\* at most two); include_started_matches is bound when process_data is
\* called (logic.py 90, 204) and holds either value before
InitFewSports ==
    /\ entry_point = "get_arbitrage_opportunities" /\ pc = "call"
    /\ NoGui
    /\ \E n \in 0..2 :
          /\ selected_sports = [i \in 1..n |-> SportKey(Soccer, i)]
          /\ world \in Sources(IF n = 0 THEN 0..2 ELSE {0}, {1})
    /\ sports = <<>> /\ task = <<>> /\ issued = <<>> /\ status = <<>>
    /\ work_item = <<>> /\ cancel_next = 0
    /\ results = <<>> /\ catalog_calls = 0 /\ catalog_status = 0
    /\ NoScan /\ NoEnd /\ NoAlloc
    /\ cutoff \in Cutoffs
    /\ include_started_matches \in BOOLEAN
    /\ now = 0

InitFilter == InitShapes \/ InitFewSports

SpecFilter == InitFilter /\ [][Next]_vars

\* ------------------------------------------------------------------------
\* calculate_bankroll_allocation (gui.py 269-292)
\* ------------------------------------------------------------------------
MaxAllocOutcomes == 3
AllocPrices == {Float(2, 1), Float(5, 2), Float(11, 5), Float(4, 1)}
AllocTotals == {Float(1, 2), Float(47, 55), Float(1, 1)}
Bankrolls == {Float(0, 1), Float(100, 1), Float(1000, 1)}

\* a stake that multiplies by the total implied odds
StakeFractionTimes(odd, total) == FMul(FDiv(Float(1, 1), odd), total)

\* gui.py 279: (1 / odd) / total_implied_odds
StakeFraction(odd, total) == FDiv(FDiv(Float(1, 1), odd), total)

\* gui.py 277-285: the entry of one outcome
Allocation(entry, total, roll) ==
    [name |-> entry.name,
     percentage |-> FMul(StakeFraction(entry.pick[2], total), Float(100, 1)),
     amount |-> FMul(roll, StakeFraction(entry.pick[2], total)),
     bookmaker |-> entry.pick[1],
     odd |-> entry.pick[2]]

\* gui.py 275, 286: total_percentage += stake_percentage * 100
RECURSIVE SumPercentages(_)
SumPercentages(allocs) ==
    IF allocs = <<>> THEN Float(0, 1)
    ELSE FAdd(SumPercentages(SubSeq(allocs, 1, Len(allocs) - 1)),
              allocs[Len(allocs)].percentage)

\* gui.py 289: the band outside which the warning is printed
InBalance(total_pct) ==
    FLe(Float(995, 10), total_pct) /\ FLe(total_pct, Float(1005, 10))

\* the total the scanner stores for these picks (logic.py 159)
ImpliedOf(odds) == CombinationImplied([i \in 1..Len(odds) |-> odds[i].pick])

\* calculate_bankroll_allocation(odds_dict, total_implied_odds, bankroll)
InitAlloc ==
    /\ entry_point = "calculate_bankroll_allocation" /\ pc = "alloc"
    /\ NoGui
    /\ NoOrch /\ NoScan /\ NoEnd
    /\ cutoff = Float(0, 1) /\ include_started_matches = TRUE /\ now = 0
    /\ \E k \in 1..MaxAllocOutcomes :
          \E f \in [1..k -> AllocPrices] :
             odds_dict = [i \in 1..k |-> [name |-> Names[i],
                                         pick |-> <<Titles[(i % Len(Titles)) + 1], f[i]>>]]
    /\ total_implied_odds \in
          AllocTotals \cup {ImpliedOf(odds_dict)}
    /\ bankroll \in Bankrolls
    /\ allocations = <<>> /\ total_percentage = Float(0, 1) /\ warned = FALSE

\* gui.py 269-292
Allocate ==
    /\ pc = "alloc"
    /\ allocations' = [i \in 1..Len(odds_dict) |->
                          Allocation(odds_dict[i], total_implied_odds, bankroll)]
    /\ total_percentage' = SumPercentages(allocations')
    /\ warned' = ~InBalance(total_percentage')
    /\ pc' = "done"
    /\ outcome' = "returned"
    /\ UNCHANGED <<gui_vars, entry_point, orch_vars, scan_vars, arg_vars, now, exc, returned,
                   odds_dict, total_implied_odds, bankroll>>

NextAlloc == Allocate

SpecAlloc == InitAlloc /\ [][NextAlloc]_vars

\* ------------------------------------------------------------------------
\* display_results: the allocation of a scanned opportunity (gui.py 342-352)
\* ------------------------------------------------------------------------
\* process_data over one input, the bankroll of the view chosen beforehand
InitStake ==
    /\ entry_point = "process_data" /\ pc = "scan"
    /\ NoGui
    /\ NoOrch /\ NoEnd
    /\ NoIteration
    /\ \/ \E k \in 1..MaxOutcomes : \E f \in DenseQuotes(k, 2) :
             data = << DenseMatch(k, 2, f) >>
       \/ data \in { <<m>> : m \in MatchPool \cup EdgePool }
    /\ cutoff \in Cutoffs
    /\ include_started_matches = TRUE
    /\ now = 0
    /\ odds_dict = <<>> /\ total_implied_odds = Float(1, 1)
    /\ bankroll \in Bankrolls
    /\ allocations = <<>> /\ total_percentage = Float(0, 1) /\ warned = FALSE

\* gui.py 342-352: calculate_bankroll_allocation called for an
\* opportunity of the list the scanner returned (one call is followed,
\* for any one of the opportunities)
AllocateEmitted ==
    /\ entry_point = "process_data"
    /\ pc = "done" /\ outcome = "returned"
    /\ odds_dict = <<>>
    /\ \E j \in 1..Len(returned) :
          /\ odds_dict' = returned[j].best_outcome_odds
          /\ total_implied_odds' = returned[j].total_implied_odds
    /\ allocations' = [i \in 1..Len(odds_dict') |->
                          Allocation(odds_dict'[i], total_implied_odds', bankroll)]
    /\ total_percentage' = SumPercentages(allocations')
    /\ warned' = ~InBalance(total_percentage')
    /\ UNCHANGED <<gui_vars, entry_point, pc, orch_vars, scan_vars, arg_vars, now, end_vars,
                   bankroll>>

NextStake == Scan \/ Return \/ Tick \/ AllocateEmitted

SpecStake == InitStake /\ [][NextStake]_vars

\* ------------------------------------------------------------------------
\* ArbitrageFinderGUI: the widgets, the worker threads and their signals
\* (gui.py 28-71, 95-222, 224-267, 294-378, 449-550)
\* ------------------------------------------------------------------------
\* clicks that start a thread
MaxLoads == 2
MaxSearches == 2

\* the characters of the sport keys in the order of their code points
Alphabet ==
    Digits \o <<"S", "_">>
    \o <<"a", "b", "c", "d", "e", "f", "g", "h", "i", "j", "k", "l", "m",
         "n", "o", "p", "q", "r", "s", "t", "u", "v", "w", "x", "y", "z">>

Ord(c) == CHOOSE k \in 1..Len(Alphabet) : Alphabet[k] = c

\* a < b on str
RECURSIVE StrLess(_, _)
StrLess(a, b) ==
    IF b = <<>> THEN FALSE
    ELSE IF a = <<>> THEN TRUE
    ELSE IF Head(a) = Head(b) THEN StrLess(Tail(a), Tail(b))
    ELSE Ord(Head(a)) < Ord(Head(b))

\* x put behind the elements of the sorted list s that are not above it
RECURSIVE InsertSorted(_, _)
InsertSorted(x, s) ==
    IF s = <<>> THEN <<x>>
    ELSE IF StrLess(x, Head(s)) THEN <<x>> \o s
    ELSE <<Head(s)>> \o InsertSorted(x, Tail(s))

\* sorted(sports) (gui.py 258)
RECURSIVE sorted(_)
sorted(s) ==
    IF s = <<>> THEN <<>>
    ELSE InsertSorted(s[Len(s)], sorted(SubSeq(s, 1, Len(s) - 1)))

\* process_data over a sequence of matches, all readings at time t
RECURSIVE DirectScan(_, _, _)
DirectScan(matches, c, t) ==
    IF matches = <<>> THEN [raised |-> FALSE, opps |-> <<>>]
    ELSE Bind(ProcessMatch(Head(matches), TRUE, c, t, t), LAMBDA r :
            IF r.raised THEN [raised |-> TRUE, opps |-> <<>>]
            ELSE Bind(DirectScan(Tail(matches), c, t), LAMBDA rest :
                    [raised |-> rest.raised, opps |-> r.opps \o rest.opps]))

\* what the tasks of executor.map return or raise (logic.py 193-195)
TaskResults(w, sport_list) ==
    [i \in 1..Len(sport_list) |->
        fetch_sport_data(OddsResponse(w, sport_list[i]), w.data, sport_list[i])]

\* logic.py 173-207 as a function of its arguments, of the source and of
\* the clock: what the call returns or raises
get_arbitrage_opportunities(w, c, selected, t) ==
    Bind(IF selected = <<>>
         THEN get_sports(CatalogResponse(w), Catalog(w.catalog))
         ELSE Returns(selected), LAMBDA listing :
    IF listing.raised THEN listing
    ELSE Bind(TaskResults(w, listing.value), LAMBDA slots :
         Bind({i \in 1..Len(slots) : slots[i].raised}, LAMBDA raising :
         IF raising # {}
         THEN Raises(slots[CHOOSE i \in raising : \A j \in raising : i <= j].exc)
         ELSE Bind(DirectScan(SelectSeq(Flatten(slots), IsMatchRecord), c, t),
                   LAMBDA scan :
                      IF scan.raised THEN Raises("KeyError")
                      ELSE Returns(scan.opps)))))

\* the signals of a thread are queued for the GUI thread
\* (id: the thread; sports, opportunities, exc: what the signal carries)
Signal(name, from, id, sports_loaded, result, error) ==
    [signal |-> name, from |-> from, id |-> id, sports |-> sports_loaded,
     opportunities |-> result, exc |-> error]

Finished(from, id) == Signal("finished", from, id, <<>>, <<>>, "none")

\* the states of the source the window is run against
GuiSources ==
    { [data |-> 3, catalog |-> m, odds |-> o, listing |-> l] :
        m \in {0, MaxCatalog}, o \in {1, 4}, l \in {1, 3, 5} }

\* ArbitrageFinderGUI.__init__ (gui.py 95-222): both buttons disabled,
\* both check boxes ticked, bankroll 1000, margin 0, nothing loaded,
\* nothing found
InitGui ==
    /\ entry_point = "ArbitrageFinderGUI" /\ pc = "gui"
    /\ selected_sports = <<>>
    /\ world \in GuiSources
    /\ sports = <<>> /\ task = <<>> /\ issued = <<>> /\ status = <<>>
    /\ work_item = <<>> /\ cancel_next = 0
    /\ results = <<>> /\ catalog_calls = 0 /\ catalog_status = 0
    /\ NoScan /\ NoEnd
    /\ odds_dict = <<>> /\ total_implied_odds = Float(1, 1)
    /\ bankroll = Float(1000, 1)
    /\ allocations = <<>> /\ total_percentage = Float(0, 1) /\ warned = FALSE
    /\ cutoff = Float(0, 1) /\ include_started_matches = TRUE /\ now = 0
    /\ api_key \in {"", "key"}
    /\ search_button = FALSE /\ export_button = FALSE
    /\ sports_list = <<>> /\ selected_items = {}
    /\ select_all_sports = TRUE /\ show_bankroll_alloc = TRUE
    /\ sports_loader = <<>> /\ worker = <<>>
    /\ events = <<>> /\ results_text = 0 /\ opportunities = NoOpportunities
    /\ exported = NoExport /\ file_dialog = FALSE

\* what the GUI actions leave alone
NotGui == <<entry_point, pc, orch_vars, scan_vars, arg_vars, now, end_vars, api_key>>

\* gui.py 224-231: the Select All box changes state
toggle_all_sports ==
    /\ pc = "gui"
    /\ ~file_dialog
    /\ select_all_sports' = ~select_all_sports
    /\ selected_items' = IF select_all_sports' THEN 1..Len(sports_list) ELSE {}
    /\ UNCHANGED <<NotGui, alloc_vars, search_button, export_button, sports_list,
                   show_bankroll_alloc, sports_loader, worker, events, results_text,
                   opportunities, exported,
                   file_dialog>>

\* the Show Bankroll Allocation box is ticked or unticked (gui.py 164-165:
\* no handler is connected to it)
ShowBankrollAllocToggled ==
    /\ pc = "gui"
    /\ ~file_dialog
    /\ show_bankroll_alloc' = ~show_bankroll_alloc
    /\ UNCHANGED <<NotGui, alloc_vars, search_button, export_button, sports_list,
                   selected_items, select_all_sports, sports_loader, worker, events,
                   results_text, opportunities, exported,
                   file_dialog>>

\* gui.py 233-251: a click on Load Sports (always enabled); without a key
\* the handler returns after a warning and changes nothing
load_available_sports ==
    /\ pc = "gui"
    /\ ~file_dialog
    /\ api_key # ""
    /\ Len(sports_loader) < MaxLoads
    /\ sports_list' = <<>>
    /\ selected_items' = {}
    /\ sports_loader' = Append(sports_loader, "running")
    /\ UNCHANGED <<NotGui, alloc_vars, search_button, export_button, select_all_sports,
                   show_bankroll_alloc, worker, events, results_text, opportunities,
                   exported,
                   file_dialog>>

\* gui.py 62-68: SportsLoaderWorker.run up to its first signal:
\* sports_loaded, or error with str(e); when str(e) raises, the finally
\* block emits finished and the thread ends with that exception
SportsLoaderRun(l) ==
    /\ pc = "gui"
    /\ sports_loader[l] = "running"
    /\ LET r == get_sports(CatalogResponse(world), Catalog(world.catalog))
           text == APIException_str(CatalogResponse(world))
       IN  IF ~r.raised
           THEN /\ events' = Append(events, Signal("sports_loaded", "loader", l,
                                                   r.value, <<>>, "none"))
                /\ sports_loader' = [sports_loader EXCEPT ![l] = "finishing"]
           ELSE IF ~text.raised
           THEN /\ events' = Append(events, Signal("error", "loader", l,
                                                   <<>>, <<>>, r.exc))
                /\ sports_loader' = [sports_loader EXCEPT ![l] = "finishing"]
           ELSE /\ events' = Append(events, Finished("loader", l))
                /\ sports_loader' = [sports_loader EXCEPT ![l] = "finished"]
    /\ UNCHANGED <<NotGui, alloc_vars, search_button, export_button, sports_list,
                   selected_items, select_all_sports, show_bankroll_alloc, worker,
                   results_text, opportunities, exported,
                   file_dialog>>

\* gui.py 69-71: the finally block of SportsLoaderWorker.run emits finished
SportsLoaderFinally(l) ==
    /\ pc = "gui"
    /\ sports_loader[l] = "finishing"
    /\ events' = Append(events, Finished("loader", l))
    /\ sports_loader' = [sports_loader EXCEPT ![l] = "finished"]
    /\ UNCHANGED <<NotGui, alloc_vars, search_button, export_button, sports_list,
                   selected_items, select_all_sports, show_bankroll_alloc, worker,
                   results_text, opportunities, exported,
                   file_dialog>>

\* gui.py 301: the texts of the selected items
SelectedSports ==
    SelectSeq([i \in 1..Len(sports_list) |-> [row |-> i, text |-> sports_list[i]]],
              LAMBDA item : item.row \in selected_items)

\* gui.py 294-325: a click on Find Opportunities, which a disabled button
\* does not deliver; without a key or without a selected sport the handler
\* returns after a warning and changes nothing
find_opportunities ==
    /\ pc = "gui"
    /\ ~file_dialog
    /\ search_button
    /\ api_key # ""
    /\ SelectedSports # <<>>
    /\ Len(worker) < MaxSearches
    /\ search_button' = FALSE
    /\ export_button' = FALSE
    /\ results_text' = 0
    /\ worker' = Append(worker,
                        [state |-> "running",
                         selected_sports |-> [i \in 1..Len(SelectedSports) |->
                                                 SelectedSports[i].text],
                         cutoff |-> FDiv(cutoff, Float(100, 1))])
    /\ UNCHANGED <<NotGui, alloc_vars, sports_list, selected_items, select_all_sports,
                   show_bankroll_alloc, sports_loader, events, opportunities, exported,
                   file_dialog>>

\* gui.py 39-50: ArbitrageWorker.run up to its first signal: result with
\* the list get_arbitrage_opportunities returned, or error with str(e)
ArbitrageWorkerRun(w) ==
    /\ pc = "gui"
    /\ worker[w].state = "running"
    /\ events' = Append(events,
          Bind(get_arbitrage_opportunities(world, worker[w].cutoff,
                                           worker[w].selected_sports, now),
               LAMBDA r :
                  IF r.raised
                  THEN Signal("error", "worker", w, <<>>, <<>>, r.exc)
                  ELSE Signal("result", "worker", w, <<>>, r.value, "none")))
    /\ worker' = [worker EXCEPT ![w].state = "finishing"]
    /\ UNCHANGED <<NotGui, alloc_vars, search_button, export_button, sports_list,
                   selected_items, select_all_sports, show_bankroll_alloc,
                   sports_loader, results_text, opportunities, exported,
                   file_dialog>>

\* gui.py 51-52: the finally block of ArbitrageWorker.run emits finished
ArbitrageWorkerFinally(w) ==
    /\ pc = "gui"
    /\ worker[w].state = "finishing"
    /\ events' = Append(events, Finished("worker", w))
    /\ worker' = [worker EXCEPT ![w].state = "finished"]
    /\ UNCHANGED <<NotGui, alloc_vars, search_button, export_button, sports_list,
                   selected_items, select_all_sports, show_bankroll_alloc,
                   sports_loader, results_text, opportunities, exported,
                   file_dialog>>

\* gui.py 253-267: sports_loaded reaches the GUI thread
update_sports_list ==
    /\ pc = "gui"
    /\ events # <<>> /\ Head(events).signal = "sports_loaded"
    /\ sports_list' = sorted(Head(events).sports)
    /\ selected_items' = IF select_all_sports THEN 1..Len(sports_list') ELSE {}
    /\ search_button' = TRUE
    /\ events' = Tail(events)
    /\ UNCHANGED <<NotGui, alloc_vars, export_button, select_all_sports,
                   show_bankroll_alloc, sports_loader, worker, results_text,
                   opportunities, exported,
                   file_dialog>>

\* an opportunity as self.opportunities holds it: the dict of the scanner,
\* with the key bankroll_allocations once an allocation was stored in it
Held(arb) == [arb |-> arb, has_allocations |-> FALSE, bankroll_allocations |-> <<>>]

\* gui.py 269-292 on the fields of an opportunity
Allocations(arb, roll) ==
    [i \in 1..Len(arb.best_outcome_odds) |->
        Allocation(arb.best_outcome_odds[i], arb.total_implied_odds, roll)]

\* arb['bankroll_allocations'] = allocations (gui.py 352, 482-486)
WithAllocations(held, roll) ==
    [held EXCEPT !.has_allocations = TRUE,
                 !.bankroll_allocations = Allocations(held.arb, roll)]

\* the arguments and results of the call of calculate_bankroll_allocation
\* made last, for the opportunity arb
AllocatedLast(arb) ==
    /\ odds_dict' = arb.best_outcome_odds
    /\ total_implied_odds' = arb.total_implied_odds
    /\ allocations' = Allocations(arb, bankroll)
    /\ total_percentage' = SumPercentages(allocations')
    /\ warned' = ~InBalance(total_percentage')
    /\ UNCHANGED bankroll

\* gui.py 330-447: result reaches the GUI thread; with Show Bankroll
\* Allocation ticked the allocation of every opportunity is calculated
\* and stored in it, and calculated again for the table
display_results ==
    /\ pc = "gui"
    /\ events # <<>> /\ Head(events).signal = "result"
    /\ LET found == Head(events).opportunities
       IN  /\ opportunities' =
                [search |-> Head(events).id,
                 list |-> [j \in 1..Len(found) |->
                              IF show_bankroll_alloc
                              THEN WithAllocations(Held(found[j]), bankroll)
                              ELSE Held(found[j])]]
           /\ IF show_bankroll_alloc /\ found # <<>>
              THEN AllocatedLast(found[Len(found)])
              ELSE UNCHANGED alloc_vars
    /\ results_text' = Head(events).id
    /\ events' = Tail(events)
    /\ UNCHANGED <<NotGui, search_button, export_button, sports_list, selected_items,
                   select_all_sports, show_bankroll_alloc, sports_loader, worker,
                   exported,
                   file_dialog>>

\* gui.py 449-453: error of either thread reaches the GUI thread
handle_error ==
    /\ pc = "gui"
    /\ events # <<>> /\ Head(events).signal = "error"
    /\ results_text' = 0
    /\ events' = Tail(events)
    /\ UNCHANGED <<NotGui, alloc_vars, search_button, export_button, sports_list,
                   selected_items, select_all_sports, show_bankroll_alloc,
                   sports_loader, worker, opportunities, exported,
                   file_dialog>>

\* gui.py 455-463: finished of an ArbitrageWorker reaches the GUI thread
search_completed ==
    /\ pc = "gui"
    /\ events # <<>>
    /\ Head(events).signal = "finished" /\ Head(events).from = "worker"
    /\ search_button' = TRUE
    /\ export_button' = (opportunities.list # <<>>)
    /\ events' = Tail(events)
    /\ UNCHANGED <<NotGui, alloc_vars, sports_list, selected_items, select_all_sports,
                   show_bankroll_alloc, sports_loader, worker, results_text,
                   opportunities, exported,
                   file_dialog>>

\* gui.py 249: finished of a SportsLoaderWorker hides the progress bar
LoaderFinished ==
    /\ pc = "gui"
    /\ events # <<>>
    /\ Head(events).signal = "finished" /\ Head(events).from = "loader"
    /\ events' = Tail(events)
    /\ UNCHANGED <<NotGui, alloc_vars, search_button, export_button, sports_list,
                   selected_items, select_all_sports, show_bankroll_alloc,
                   sports_loader, worker, results_text, opportunities, exported,
                   file_dialog>>

\* the opportunities that export_results calculates an allocation for
MissingAllocations ==
    {j \in 1..Len(opportunities.list) :
        show_bankroll_alloc /\ ~opportunities.list[j].has_allocations}

\* gui.py 465-471: a click on Export Results, which a disabled button does
\* not deliver; without opportunities the handler returns and changes
\* nothing, with some it opens the file dialog. The dialog is modal: until
\* it is closed no click reaches the window, while the signals of the
\* threads are still delivered
export_results ==
    /\ pc = "gui"
    /\ ~file_dialog
    /\ export_button
    /\ opportunities.list # <<>>
    /\ file_dialog' = TRUE
    /\ UNCHANGED <<NotGui, alloc_vars, search_button, export_button, sports_list,
                   selected_items, select_all_sports, show_bankroll_alloc,
                   sports_loader, worker, events, results_text, opportunities,
                   exported>>

\* gui.py 469-550: the file dialog is closed. Without a file chosen the
\* handler returns; with one, the allocations that are missing in what
\* self.opportunities holds by now are calculated and stored, then the
\* file is written in the chosen format, or writing it fails
getSaveFileName ==
    /\ pc = "gui"
    /\ file_dialog
    /\ file_dialog' = FALSE
    /\ \E file_path \in BOOLEAN :
          IF ~file_path
          THEN UNCHANGED <<alloc_vars, opportunities, exported>>
          ELSE /\ opportunities' =
                     [opportunities EXCEPT !.list =
                         [j \in 1..Len(opportunities.list) |->
                             IF j \in MissingAllocations
                             THEN WithAllocations(opportunities.list[j], bankroll)
                             ELSE opportunities.list[j]]]
               /\ IF MissingAllocations # {}
                  THEN AllocatedLast(opportunities.list[
                           CHOOSE j \in MissingAllocations :
                               \A k \in MissingAllocations : k <= j].arb)
                  ELSE UNCHANGED alloc_vars
               /\ \E format \in {"json", "csv"}, written \in BOOLEAN :
                     exported' = IF written
                                 THEN [format |-> format,
                                       show_allocation |-> show_bankroll_alloc,
                                       rows |-> opportunities'.list]
                                 ELSE exported
    /\ UNCHANGED <<NotGui, search_button, export_button, sports_list, selected_items,
                   select_all_sports, show_bankroll_alloc, sports_loader, worker,
                   events, results_text>>

NextGui ==
    \/ toggle_all_sports
    \/ ShowBankrollAllocToggled
    \/ load_available_sports
    \/ \E l \in 1..Len(sports_loader) : SportsLoaderRun(l)
    \/ \E l \in 1..Len(sports_loader) : SportsLoaderFinally(l)
    \/ find_opportunities
    \/ \E w \in 1..Len(worker) : ArbitrageWorkerRun(w)
    \/ \E w \in 1..Len(worker) : ArbitrageWorkerFinally(w)
    \/ update_sports_list
    \/ display_results
    \/ handle_error
    \/ search_completed
    \/ LoaderFinished
    \/ export_results
    \/ getSaveFileName

SpecGui == InitGui /\ [][NextGui]_vars

\* ------------------------------------------------------------------------
\* Properties of the scanner
\* ------------------------------------------------------------------------
\* the sum of 1/price over a sequence of prices, added in floats from 0 in
\* the order of the sequence
RECURSIVE ImpliedSum(_)
ImpliedSum(prices) ==
    IF prices = <<>> THEN Float(0, 1)
    ELSE LET n == Len(prices)
         IN  FAdd(ImpliedSum(SubSeq(prices, 1, n - 1)), FDiv(Float(1, 1), prices[n]))

\* the same sum in exact arithmetic
RECURSIVE ExactSum(_)
ExactSum(prices) ==
    IF prices = <<>> THEN RInt(0)
    ELSE RAdd(RDiv(RInt(1), Nom(Head(prices))), ExactSum(Tail(prices)))

\* 0 < total < 1 and 1 - total >= c, evaluated in floats
InBand(total, c) ==
    /\ FLt(Float(0, 1), total)
    /\ FLt(total, Float(1, 1))
    /\ FLe(c, FSub(Float(1, 1), total))

\* the rounding a float carries is at most k spacings of its binade
Within(x, k) == Abs(x.t) <= k * x.d

Picks(opp) == [i \in 1..Len(opp.best_outcome_odds) |-> opp.best_outcome_odds[i].pick]
PickPrices(opp) == [i \in 1..Len(opp.best_outcome_odds) |-> opp.best_outcome_odds[i].pick[2]]
PricesOf(combination) == [i \in 1..Len(combination) |-> combination[i][2]]

\* the log entries of matches that got past the start-time filter
Examined ==
    { n \in 1..Len(log) :
        /\ ~log[n].raised
        /\ ~(~include_started_matches /\ log[n].match.commence_time < log[n].reading) }

\* the examined match whose iteration has just ended; every examined match
\* is this one in the state its iteration ends in
JustScanned == { n \in Examined : n = Len(log) /\ pc = "scan" }

\* the sorted candidate lists of a match
Ranked(match) == LET od == OutcomesData(match)
                 IN  [i \in 1..Len(od) |-> od[i].cands]

BestSum(ranked) == ImpliedSum([i \in 1..Len(ranked) |-> ranked[i][1][2]])

\* the match passes the feasibility gate
GateOpen(ranked) == Len(ranked) >= 2 /\ FLt(BestSum(ranked), Float(1, 1))

\* the lists that are enumerated: the top 2 of each when there are more
\* than 3 outcomes
Capped(lists) ==
    IF Len(lists) > 3
    THEN [i \in 1..Len(lists) |->
            IF Len(lists[i]) > 2 THEN SubSeq(lists[i], 1, 2) ELSE lists[i]]
    ELSE lists

Longest(lists) ==
    IF lists = <<>> THEN 0
    ELSE CHOOSE m \in {Len(lists[i]) : i \in 1..Len(lists)} :
            \A i \in 1..Len(lists) : Len(lists[i]) <= m

\* the combinations of one entry per list
Combos(lists) ==
    LET m == Longest(lists)
    IN  { [i \in 1..Len(lists) |-> lists[i][ch[i]]] :
            ch \in { c \in [1..Len(lists) -> 1..m] :
                       \A i \in 1..Len(lists) : c[i] <= Len(lists[i]) } }

\* the combinations that are in the band
GoodCombos(lists, c) ==
    { combination \in Combos(lists) :
        InBand(ImpliedSum(PricesOf(combination)), c) }

AllPicks(opps) == [j \in 1..Len(opps) |-> Picks(opps[j])]

\* picks holds every member of good exactly once and nothing else
ExactlyOnce(picks, good) ==
    /\ Len(picks) = Cardinality(good)
    /\ \A j \in 1..Len(picks) : picks[j] \in good
    /\ \A i, j \in 1..Len(picks) : picks[i] = picks[j] => i = j

\* C1: every yielded opportunity has 0 < total_implied_odds < 1 and
\* 1 - total_implied_odds >= cutoff, total_implied_odds being the sum of
\* 1/price over the pairs stored in its best_outcome_odds (the float sum;
\* the exact sum of the same prices differs from it by the rounding of the
\* additions only and is at most 1, with a margin of at least the cutoff).
\* Stated of the opportunity yielded last, which every opportunity is in
\* the state its yield leads to.
C1_EmittedInBand ==
    \A j \in {Len(emitted)} \ {0} :
        LET total == ImpliedSum(PickPrices(emitted[j]))
            exact == ExactSum(PickPrices(emitted[j]))
        IN  /\ emitted[j].total_implied_odds = total
            /\ InBand(total, cutoff)
            /\ Nom(total) = exact
            /\ Within(total, Len(PickPrices(emitted[j])))
            /\ RLt(RInt(0), exact) /\ RLe(exact, RInt(1))
            /\ RLe(Nom(cutoff), RSub(RInt(1), exact))

C1_Witness ==
    /\ entry_point = "process_data"
    /\ FLt(Float(0, 1), cutoff)
    /\ \E j \in 1..Len(emitted) :
          FCmp(FSub(Float(1, 1), emitted[j].total_implied_odds), cutoff) = 0

\* C2: for a match past the filter and the gate, every combination of the
\* (capped) candidate lists is yielded once if it is in the band and not at
\* all otherwise, and nothing else is yielded
C2_Complete ==
    \A n \in JustScanned :
        LET ranked == Ranked(log[n].match)
        IN  GateOpen(ranked) =>
                ExactlyOnce(AllPicks(log[n].opps), GoodCombos(Capped(ranked), cutoff))

C2_Witness ==
    \E n \in Examined :
        LET ranked == Ranked(log[n].match)
            good == GoodCombos(Capped(ranked), cutoff)
        IN  /\ GateOpen(ranked)
            /\ Len(log[n].opps) >= 2
            /\ good # Combos(Capped(ranked))
            /\ \E combination \in good :
                  FCmp(FSub(Float(1, 1), ImpliedSum(PricesOf(combination))), cutoff) = 0

\* C3: a match whose best prices give implied odds >= 1 yields nothing and
\* none of its combinations is in the band; what the scanner yields for a
\* match is what the enumeration yields without the gate
C3_PruningLosesNothing ==
    \A n \in JustScanned :
        LET ranked == Ranked(log[n].match)
        IN  Len(ranked) >= 2 =>
              /\ ~FLt(BestSum(ranked), Float(1, 1)) =>
                    /\ log[n].opps = <<>>
                    /\ GoodCombos(ranked, cutoff) = {}
              /\ log[n].opps =
                    Emitted(log[n].match, Truncate(OutcomesData(log[n].match)),
                            cutoff, log[n].body_reading)

C3_Witness ==
    \E n \in Examined :
        LET ranked == Ranked(log[n].match)
        IN  /\ Len(ranked) >= 2
            /\ ~FLt(BestSum(ranked), Float(1, 1))
            /\ \E i \in 1..Len(ranked) : Len(ranked[i]) >= 2
            /\ log[n].opps = <<>>

\* C4: with more than 3 outcomes every pick is at position 1 or 2 of its
\* outcome's ranked list; with 2 or 3 outcomes every combination of the
\* full ranked lists that is in the band is yielded
C4_TopTwo ==
    \A n \in JustScanned :
        LET ranked == Ranked(log[n].match)
            picks == AllPicks(log[n].opps)
        IN  /\ Len(ranked) > 3 =>
                  \A j \in 1..Len(picks) :
                      \A i \in 1..Len(ranked) :
                          \E r \in 1..2 :
                              r <= Len(ranked[i]) /\ picks[j][i] = ranked[i][r]
            /\ (Len(ranked) \in {2, 3} /\ GateOpen(ranked)) =>
                  ExactlyOnce(picks, GoodCombos(ranked, cutoff))

C4_Witness ==
    \E n \in Examined :
        LET ranked == Ranked(log[n].match)
        IN  /\ Len(ranked) > 3
            /\ log[n].opps # <<>>
            /\ \E i \in 1..Len(ranked) :
                  /\ Len(ranked[i]) >= 3
                  /\ FLt(ranked[i][3][2], ranked[i][2][2])
            /\ Cardinality(GoodCombos(ranked, cutoff)) > Len(log[n].opps)

\* ------------------------------------------------------------------------
\* Properties of the orchestrator
\* ------------------------------------------------------------------------
Orchestrated == entry_point = "get_arbitrage_opportunities"
\* the call has its list of sports: the one given, or the catalog's
Dispatched == Orchestrated /\ pc # "call"
                 /\ ~(catalog_calls > 0 /\ ~Ok(CatalogResponse(world)))

\* the answer to the odds request of position i
Answered(i) == OddsResponse(world, sports[i])

Failed == {i \in 1..Len(task) : task[i] = "done" /\ ~Ok(Answered(i))}
Succeeded == {i \in 1..Len(task) : task[i] = "done" /\ Ok(Answered(i))}
RetrievalExceptions == {"AuthenticationException", "RateLimitException", "APIException"}

\* the failed retrievals whose error cannot be printed
Unprintable == {i \in Failed : Answered(i).body # "message"}

\* the entries held by the source for the sports whose request succeeded,
\* in the order of the sports
RECURSIVE SucceededEntries(_)
SucceededEntries(i) ==
    IF i > Len(sports) THEN <<>>
    ELSE (IF i \in Succeeded THEN ServerData(world.data, sports[i]) ELSE <<>>)
         \o SucceededEntries(i + 1)

\* an opportunity without its clock-dependent field
Timeless(opps) == [j \in 1..Len(opps) |-> [opps[j] EXCEPT !.hours_to_start = Float(0, 1)]]

\* C5: when retrievals fail, each failure leaves an empty result in its
\* slot, no exception reaches the caller, and the list returned is the scan
\* of the matches of the sports whose retrieval succeeded
C5_NoExceptionReachesCaller ==
    (Dispatched /\ Failed # {}) =>
        /\ \A i \in Failed : results[i] = [EmptySlot EXCEPT !.filled = TRUE]
        /\ outcome # "raised"
        /\ pc = "done" =>
              /\ outcome = "returned"
              /\ Timeless(returned) =
                    Timeless(DirectScan(SelectSeq(SucceededEntries(1), IsMatchRecord),
                                        cutoff, 0).opps)

\* C5, what the orchestrator guarantees: a failed retrieval whose error
\* can be printed leaves an empty result in its slot, no retrieval
\* exception reaches the caller once sports are dispatched, and, unless the
\* printing of a failure raised, the call ends as the scan of the entries
\* of the succeeded sports ends: with the same list, or with its KeyError
C5_FailureIsolation ==
    Dispatched =>
        /\ \A i \in Failed \ Unprintable :
              results[i] = [EmptySlot EXCEPT !.filled = TRUE]
        /\ \A i \in Unprintable : results[i].raised
        /\ exc \notin RetrievalExceptions
        /\ (pc = "done" /\ Unprintable = {}) =>
              LET expected == DirectScan(SelectSeq(SucceededEntries(1), IsMatchRecord),
                                         cutoff, 0)
              IN  IF expected.raised
                  THEN outcome = "raised" /\ exc = "KeyError"
                  ELSE /\ outcome = "returned"
                       /\ Timeless(returned) = Timeless(expected.opps)

C5_Witness ==
    /\ Dispatched /\ pc = "done" /\ outcome = "returned"
    /\ Cardinality(Failed) = 1
    /\ Cardinality(Succeeded) = 2
    /\ Len(returned) >= 2

\* the requests that the source answered 401
Rejected == {i \in 1..Len(task) : task[i] = "done" /\ Answered(i).status_code = 401}

\* C6 as claimed: a rejected credential (401) on any request of the call
\* ends the call with AuthenticationException
C6_AuthAlwaysSurfaces ==
    (Orchestrated /\ pc = "done" /\ (catalog_status = 401 \/ Rejected # {}))
    => (outcome = "raised" /\ exc = "AuthenticationException")

\* C6 as amended: a 401 on the catalog request ends the call with
\* AuthenticationException after that single request and before any odds
\* request, and no call ends with AuthenticationException otherwise; a
\* 401 on an odds request was sent once and, when its error body carries
\* a message, leaves an empty result in the slot of its sport
C6_AuthSurfacesFromCatalogOnly ==
    Orchestrated =>
        /\ catalog_status = 401 =>
              /\ pc = "done" /\ outcome = "raised"
              /\ exc = "AuthenticationException"
              /\ catalog_calls = 1
              /\ task = <<>> /\ issued = <<>>
        /\ exc = "AuthenticationException" => catalog_status = 401
        /\ \A i \in Rejected :
              /\ status[i] = 401
              /\ issued[i] = 1
              /\ results[i].exc # "AuthenticationException"
              /\ Answered(i).body = "message" =>
                    results[i] = [EmptySlot EXCEPT !.filled = TRUE]

\* both sports of a call were answered 401 with a message, and the call
\* returned
C6_Witness ==
    /\ Orchestrated /\ pc = "done" /\ outcome = "returned"
    /\ selected_sports # <<>>
    /\ Len(task) >= 2
    /\ Rejected = 1..Len(task)

\* a record with every field the scanner reads
WellFormed(x) == x.isdict /\ "message" \notin x.keys /\ MatchKeys \subseteq x.keys

\* C7: an entry that is not a well-formed match record never reaches the
\* scanner and never makes the call raise
C7_MalformedDiscarded ==
    (Orchestrated /\ RaisedSlots = {}) =>
        /\ \A n \in 1..Len(log) : WellFormed(log[n].match)
        /\ exc # "KeyError"
        /\ (Dispatched /\ pc = "done") =>
              /\ outcome = "returned"
              /\ Timeless(returned) =
                    Timeless(DirectScan(SelectSeq(SucceededEntries(1), WellFormed),
                                        cutoff, 0).opps)

\* C8: at most 5 requests are in flight, no request is sent twice, and
\* when the call has got past the retrievals one request was sent for
\* each sport
C8_BoundedPool ==
    Orchestrated =>
        /\ Cardinality(Running) <= 5
        /\ Len(issued) <= Len(sports)
        /\ \A i \in 1..Len(issued) : issued[i] <= 1
        /\ pc \in {"scan", "done"} /\ Dispatched =>
              /\ Len(issued) = Len(sports)
              /\ \A i \in 1..Len(sports) : issued[i] = 1

\* C8, what the pool guarantees: at most 5 work items are with a worker
\* and at most 5 requests are in flight, no request is sent twice, a
\* request is sent only for a future marked running and every finished
\* task sent one, and when every task returned one request was sent for
\* each sport; futures are cancelled only when a task raised, and no
\* request is sent for a cancelled one, nor for a sport not yet submitted
C8_PoolBound ==
    Orchestrated =>
        /\ Cardinality(Busy) <= 5
        /\ Cardinality(Running) <= 5
        /\ Len(issued) = Len(task) /\ Len(task) <= Len(sports)
        /\ pc \notin {"call", "submit"} => Len(task) = Len(sports)
        /\ \A i \in 1..Len(issued) :
              /\ issued[i] <= 1
              /\ issued[i] = 1 => task[i] \in {"running", "done"}
              /\ task[i] = "done" => issued[i] = 1
              /\ task[i] = "cancelled" =>
                    (pc \in {"cancel", "done"} /\ MetRaised # {} /\ issued[i] = 0)
        /\ (pc \in {"scan", "done"} /\ Dispatched /\ RaisedSlots = {}) =>
              \A i \in 1..Len(sports) : issued[i] = 1

\* five requests are in flight while a sixth sport waits in the queue
C8_Witness ==
    /\ Orchestrated
    /\ Cardinality(Running) = 5
    /\ \A i \in Running : issued[i] = 1
    /\ \E i \in 1..Len(task) : task[i] = "queued" /\ work_item[i] = "queue"

\* C9: no entry is handed to the scanner (or to the filter) before every
\* dispatched retrieval is done, and none at all when a task raised
C9_Barrier ==
    Orchestrated =>
        /\ inflight_scans = 0
        /\ (idx > 0 \/ pc \in {"scan", "body", "yield"}) =>
              /\ Len(task) = Len(sports)
              /\ \A i \in 1..Len(task) : task[i] = "done" /\ ~results[i].raised
        /\ (pc = "done" /\ RaisedSlots # {}) =>
              (Running = {} /\ data = <<>> /\ log = <<>> /\ outcome = "raised")

C9_Witness ==
    /\ Orchestrated /\ Len(log) > 0
    /\ Len(task) > max_workers
    /\ Failed # {} /\ Succeeded # {}

\* ------------------------------------------------------------------------
\* Properties of the allocator
\* ------------------------------------------------------------------------
Allocated == entry_point = "calculate_bankroll_allocation" /\ pc = "done"

\* what is paid out when outcome i wins: amount * odd, in floats
Payout(i) == FMul(allocations[i].amount, allocations[i].odd)

\* the stakes added up in floats, in the order of the outcomes
RECURSIVE SumAmounts(_)
SumAmounts(allocs) ==
    IF allocs = <<>> THEN Float(0, 1)
    ELSE FAdd(SumAmounts(SubSeq(allocs, 1, Len(allocs) - 1)),
              allocs[Len(allocs)].amount)

\* the payout of outcome i less everything that was staked
NetProfit(i) == FSub(Payout(i), SumAmounts(allocations))

\* roundings that a payout or a sum of stakes may carry, in spacings of
\* its binade
PayoutRoundings == 8

\* the stakes sum to the bankroll in exact arithmetic
FullyStaked == Nom(SumAmounts(allocations)) = Nom(bankroll)

\* C10 as claimed: every outcome pays bankroll / total_implied_odds, and
\* when the stakes sum to the bankroll the net profit is
\* bankroll * (1 - total_implied_odds); equalities are those of exact
\* arithmetic, which the floats follow up to their roundings
C10_ProfitAsClaimed ==
    Allocated =>
        \A i \in 1..Len(allocations) :
            /\ Nom(Payout(i)) = RDiv(Nom(bankroll), Nom(total_implied_odds))
            /\ Within(Payout(i), PayoutRoundings)
            /\ FullyStaked =>
                  Nom(NetProfit(i)) =
                      RMul(Nom(bankroll), RSub(RInt(1), Nom(total_implied_odds)))

\* C10 as amended: every outcome pays bankroll / total_implied_odds, and
\* when the stakes sum to the bankroll the net profit is
\* bankroll * (1 - total_implied_odds) / total_implied_odds; equalities
\* are those of exact arithmetic, which the floats follow up to a few
\* roundings
C10_EqualPayout ==
    Allocated =>
        \A i \in 1..Len(allocations) :
            /\ allocations[i].odd = odds_dict[i].pick[2]
            /\ Nom(Payout(i)) = RDiv(Nom(bankroll), Nom(total_implied_odds))
            /\ Within(Payout(i), PayoutRoundings)
            /\ FullyStaked =>
                  /\ Nom(NetProfit(i)) =
                        RDiv(RMul(Nom(bankroll), RSub(RInt(1), Nom(total_implied_odds))),
                             Nom(total_implied_odds))
                  /\ Within(SumAmounts(allocations), PayoutRoundings)

C10_Witness ==
    /\ Allocated
    /\ Len(allocations) >= 2
    /\ FLt(Float(0, 1), bankroll)
    /\ FLt(total_implied_odds, Float(1, 1))
    /\ FullyStaked
    /\ \E i \in 1..Len(allocations) : Payout(i).t # 0
    /\ \E i, j \in 1..Len(allocations) : allocations[i].amount # allocations[j].amount

\* ------------------------------------------------------------------------
\* Properties of the allocation of scanned opportunities
\* ------------------------------------------------------------------------
Staked == entry_point = "process_data" /\ odds_dict # <<>>

\* C11: for an opportunity the scanner emitted, the percentages sum to a
\* value in [99.5, 100.5], no warning is raised, and the amounts sum to the
\* bankroll (in exact arithmetic, and in floats up to a few roundings)
C11_EmittedAllocationBalanced ==
    Staked =>
        /\ \E j \in 1..Len(returned) :
              /\ odds_dict = returned[j].best_outcome_odds
              /\ total_implied_odds = returned[j].total_implied_odds
        /\ Len(allocations) = Len(odds_dict)
        /\ InBalance(total_percentage)
        /\ Nom(total_percentage) = RInt(100)
        /\ ~warned
        /\ Bind(SumAmounts(allocations), LAMBDA staked :
                 Nom(staked) = Nom(bankroll) /\ Within(staked, PayoutRoundings))

C11_Witness ==
    /\ Staked
    /\ Len(allocations) >= 3
    /\ FLt(Float(0, 1), bankroll)
    /\ total_percentage.t # 0
    /\ \E i, j \in 1..Len(allocations) : allocations[i].amount # allocations[j].amount
    /\ \E i, j \in 1..Len(allocations) :
          allocations[i].bookmaker # allocations[j].bookmaker

\* ------------------------------------------------------------------------
\* Properties of the emission order
\* ------------------------------------------------------------------------
\* the outcome names of the first markets, in the order they are met
RECURSIVE NamesObserved(_)
NamesObserved(bookmakers) ==
    IF bookmakers = <<>> THEN <<>>
    ELSE (IF Head(bookmakers).markets = <<>> THEN <<>>
          ELSE [i \in 1..Len(Head(bookmakers).markets[1]) |->
                   Head(bookmakers).markets[1][i].name])
         \o NamesObserved(Tail(bookmakers))

\* a sequence without the repetitions of what came before
RECURSIVE FirstSeen(_)
FirstSeen(seq) ==
    IF seq = <<>> THEN <<>>
    ELSE LET before == FirstSeen(SubSeq(seq, 1, Len(seq) - 1))
             last == seq[Len(seq)]
         IN  IF \E i \in 1..Len(before) : before[i] = last
             THEN before ELSE Append(before, last)

\* where each pick of an opportunity stands in its outcome's list
IndexVector(opp, lists) ==
    [i \in 1..Len(lists) |->
        CHOOSE r \in 1..Len(lists[i]) : lists[i][r] = opp.best_outcome_odds[i].pick]

\* a comes before b in lexicographic order, the last position varying fastest
LexLess(a, b) ==
    \E i \in 1..Len(a) : a[i] < b[i] /\ \A j \in 1..(i - 1) : a[j] = b[j]

\* what the log entries yielded, one entry after the other
RECURSIVE LoggedOpps(_)
LoggedOpps(entries) ==
    IF entries = <<>> THEN <<>>
    ELSE Head(entries).opps \o LoggedOpps(Tail(entries))

OutcomeNames(opp) ==
    [i \in 1..Len(opp.best_outcome_odds) |-> opp.best_outcome_odds[i].name]

\* C12: opportunities are emitted match by match in input order; within a
\* match their outcomes stand in first-observed order and their picks come
\* in strictly increasing lexicographic order of their positions in the
\* candidate lists (last outcome fastest), every qualifying combination once
C12_EmissionOrder ==
    entry_point = "process_data" =>
        /\ Len(log) = idx
        /\ \A n \in 1..Len(log) : log[n].match = data[n]
        /\ emitted = LoggedOpps(log) \o yielded
        /\ \A n \in JustScanned :
              LET ranked == Ranked(log[n].match)
                  lists == Capped(ranked)
                  opps == log[n].opps
                  names == FirstSeen(NamesObserved(log[n].match.bookmakers))
              IN  /\ \A j \in 1..Len(opps) :
                        /\ OutcomeNames(opps[j]) = names
                        /\ \A i \in 1..Len(lists) :
                              \E r \in 1..Len(lists[i]) :
                                  lists[i][r] = opps[j].best_outcome_odds[i].pick
                  /\ \A j \in 1..(Len(opps) - 1) :
                        LexLess(IndexVector(opps[j], lists),
                                IndexVector(opps[j + 1], lists))
                  /\ GateOpen(ranked) =>
                        Len(opps) = Cardinality(GoodCombos(lists, cutoff))

\* two matches emit in turn; in the second the first outcome's position
\* changes while a later outcome's position goes back
C12_Witness ==
    /\ entry_point = "process_data" /\ pc = "done" /\ outcome = "returned"
    /\ Len(log) = 2
    /\ log[1].opps # <<>>
    /\ Len(log[2].opps) >= 3
    /\ LET lists == Capped(Ranked(log[2].match))
           opps == log[2].opps
       IN  /\ Len(lists) >= 3
           /\ OutcomeNames(opps[1])[1] = "Away"
           /\ \E j \in 1..(Len(opps) - 1) :
                 LET a == IndexVector(opps[j], lists)
                     b == IndexVector(opps[j + 1], lists)
                 IN  \E i, k \in 1..Len(lists) : i < k /\ a[i] < b[i] /\ a[k] > b[k]

\* ------------------------------------------------------------------------
\* Properties of the outcome set
\* ------------------------------------------------------------------------
\* the bookmakers of a match that have a market
WithMarket(match) ==
    {b \in 1..Len(match.bookmakers) : match.bookmakers[b].markets # <<>>}

\* the quotes of the first market of bookmaker b
FirstMarket(match, b) == match.bookmakers[b].markets[1]

\* the distinct outcome names of the first markets of a match
MatchOutcomes(match) ==
    UNION { {FirstMarket(match, b)[q].name : q \in 1..Len(FirstMarket(match, b))} :
              b \in WithMarket(match) }

\* bookmaker title quoted price for outcome name in its first market
Quoted(match, name, title, price) ==
    \E b \in WithMarket(match) :
        /\ match.bookmakers[b].title = title
        /\ \E q \in 1..Len(FirstMarket(match, b)) :
              /\ FirstMarket(match, b)[q].name = name
              /\ FirstMarket(match, b)[q].price = price

\* C13: the outcomes of an emitted opportunity are the distinct outcome
\* names of the match's first markets, at least 2 of them, each with a
\* (bookmaker, price) that this bookmaker quoted for this outcome in its
\* first market; a match with fewer than 2 outcome names yields nothing
C13_OutcomeSet ==
    \A n \in JustScanned :
        LET match == log[n].match
            opps == log[n].opps
            outcomes == MatchOutcomes(match)
        IN  /\ Cardinality(outcomes) < 2 => opps = <<>>
            /\ \A j \in 1..Len(opps) :
                  LET best == opps[j].best_outcome_odds
                  IN  /\ {best[i].name : i \in 1..Len(best)} = outcomes
                      /\ Len(best) = Cardinality(outcomes)
                      /\ Len(best) >= 2
                      /\ \A i \in 1..Len(best) :
                            Quoted(match, best[i].name, best[i].pick[1], best[i].pick[2])

\* a match with an empty bookmaker, an ignored second market and a
\* bookmaker quoting one outcome emits, and a match with a single outcome
\* name was scanned and emitted nothing
C13_Witness ==
    /\ Len(log) = 2
    /\ log[1].opps # <<>>
    /\ \E b \in 1..Len(log[1].match.bookmakers) :
          log[1].match.bookmakers[b].markets = <<>>
    /\ \E b \in 1..Len(log[1].match.bookmakers) :
          Len(log[1].match.bookmakers[b].markets) = 2
    /\ Cardinality(MatchOutcomes(log[1].match)) = 3
    /\ Cardinality(MatchOutcomes(log[2].match)) = 1
    /\ ~log[2].raised /\ log[2].opps = <<>>

\* ------------------------------------------------------------------------
\* Properties of the start-time filter
\* ------------------------------------------------------------------------
\* the match of a log entry had started at the reading taken when it was
\* examined
Started(e) == e.match.commence_time < e.reading

\* process_data was called by get_arbitrage_opportunities (logic.py 204)
Piped ==
    /\ Orchestrated
    /\ pc \in {"scan", "body", "yield"} \/ (pc = "done" /\ Dispatched /\ RaisedSlots = {})

\* C14: a match is skipped by the filter exactly when
\* include_started_matches is false and its start is earlier than the
\* clock reading taken when it is examined; get_arbitrage_opportunities
\* always scans with include_started_matches true, no match is then
\* skipped, and hours_to_start, taken from the later reading of the loop
\* body, is negative for a match that had started by then
C14_StartTimeFilter ==
    /\ Piped => (include_started_matches = TRUE /\ \A n \in 1..Len(log) : ~log[n].skipped)
    /\ \A n \in 1..Len(log) :
          LET e == log[n]
              unfiltered == ProcessMatch(e.match, TRUE, cutoff, e.reading, e.body_reading)
          IN  "commence_time" \in e.match.keys =>
                 /\ e.skipped <=> (~include_started_matches /\ Started(e))
                 /\ IF e.skipped
                    THEN e.opps = <<>> /\ ~e.raised
                    ELSE e.opps = unfiltered.opps /\ e.raised = unfiltered.raised
                 /\ e.reading <= e.body_reading
                 /\ \A j \in 1..Len(e.opps) :
                       /\ e.opps[j].hours_to_start =
                             Float(e.match.commence_time - e.body_reading, 3600)
                       /\ FLt(e.opps[j].hours_to_start, Float(0, 1))
                             <=> e.match.commence_time < e.body_reading

\* in a call of get_arbitrage_opportunities a match that had started when
\* it was examined was not skipped, and was emitted with a negative
\* hours_to_start
C14_Witness ==
    /\ Piped /\ pc = "done" /\ outcome = "returned"
    /\ \E n \in 1..Len(log) :
          /\ Started(log[n]) /\ ~log[n].skipped
          /\ log[n].opps # <<>>
          /\ FLt(log[n].opps[1].hours_to_start, Float(0, 1))

\* ------------------------------------------------------------------------
\* Properties of the catalog resolution
\* ------------------------------------------------------------------------
\* the typed failure of a response that is not ok
TypedFailure(status_code) ==
    CASE status_code = 401 -> "AuthenticationException"
      [] status_code = 429 -> "RateLimitException"
      [] OTHER -> "APIException"

OddsRequests == {i \in 1..Len(issued) : issued[i] > 0}

\* the keys of the catalog that hold a popular word, in small letters or
\* capitals, and are no inactive outright
Popular ==
    { SportKey(IceHockey, 1), SportKey(SoccerCapital, 2), SportKey(AmericanFootball, 3),
      SportKey(Tennis, 4) }

\* C15: the catalog is requested exactly when selected_sports is empty,
\* once, and before any odds request; when that request fails its typed
\* failure ends the call and no odds request is sent
C15_CatalogResolution ==
    Orchestrated =>
        /\ pc = "call" => (catalog_calls = 0 /\ task = <<>> /\ OddsRequests = {})
        /\ (task # <<>> /\ selected_sports = <<>>) =>
              (catalog_calls = 1 /\ catalog_status \in {200, 204})
        /\ pc # "call" => catalog_calls = (IF selected_sports = <<>> THEN 1 ELSE 0)
        /\ selected_sports # <<>> => catalog_status = 0
        /\ (OddsRequests # {} /\ selected_sports = <<>>) => catalog_status \in {200, 204}
        /\ (pc # "call" /\ selected_sports # <<>>) => sports = selected_sports
        /\ (pc # "call" /\ selected_sports = <<>> /\ catalog_status \in {200, 204}) =>
              /\ Len(sports) = world.catalog
              /\ \A i \in 1..Len(sports) : sports[i] = Listed[i].key /\ sports[i] \in Popular
        /\ catalog_status \notin {0, 200, 204} =>
              /\ pc = "done" /\ outcome = "raised"
              /\ exc = TypedFailure(catalog_status)
              /\ task = <<>> /\ OddsRequests = {}
              /\ idx = 0 /\ returned = <<>>

C15_Witness ==
    /\ Orchestrated /\ pc = "done"
    /\ selected_sports = <<>>
    /\ world.catalog > 0
    /\ catalog_calls = 1 /\ catalog_status = 429
    /\ outcome = "raised" /\ exc = "RateLimitException"

\* ------------------------------------------------------------------------
\* Properties of the result slots
\* ------------------------------------------------------------------------
\* what the task of position i returns or raises
Answer(i) ==
    IF Ok(Answered(i)) THEN Returns(ServerData(world.data, sports[i]))
    ELSE IF Answered(i).body = "message" THEN Returns(<<>>)
    ELSE IF Answered(i).body = "text" THEN Raises("ValueError")
    ELSE Raises("KeyError")

\* the answers of the positions from i on, in the order of the sports
RECURSIVE AnswersFrom(_)
AnswersFrom(i) ==
    IF i > Len(sports) THEN <<>> ELSE Answer(i).value \o AnswersFrom(i + 1)

\* the positions whose task raises
Raising == {i \in 1..Len(sports) : Answer(i).raised}

\* C16: whatever the order in which the tasks start and complete, the
\* slot of a position holds the answer of that position's request and
\* nothing else, the entries handed to the scanner are the answers in the
\* order of the sports, and the returned list is their scan; when a task
\* raises, the call ends with the exception of the first such position;
\* however the tasks interleave, the call ends as the function of its
\* arguments and of the source says
C16_SlotsInSportOrder ==
    /\ (Orchestrated /\ pc = "done") =>
          Bind(get_arbitrage_opportunities(world, cutoff, selected_sports, 0), LAMBDA r :
               IF r.raised
               THEN outcome = "raised" /\ exc = r.exc
               ELSE outcome = "returned" /\ Timeless(returned) = Timeless(r.value))
    /\ Dispatched =>
        /\ Len(results) = Len(task)
        /\ \A i \in 1..Len(task) : work_item[i] = "queue" => task[i] \in {"queued", "cancelled"}
        /\ \A i \in 1..Len(results) :
              results[i] =
                  IF task[i] = "done"
                  THEN [filled |-> TRUE, raised |-> Answer(i).raised,
                        exc |-> Answer(i).exc, value |-> Answer(i).value]
                  ELSE EmptySlot
        /\ pc = "scan" => Raising = {}
        /\ (pc \in {"scan", "done"} /\ Raising = {}) => data = AnswersFrom(1)
        /\ (pc = "done" /\ Raising # {}) =>
              /\ outcome = "raised"
              /\ exc = Answer(CHOOSE i \in Raising : \A j \in Raising : i <= j).exc
        /\ (pc = "done" /\ outcome = "returned") =>
              Timeless(returned) =
                  Timeless(DirectScan(SelectSeq(AnswersFrom(1), IsMatchRecord),
                                      cutoff, 0).opps)

\* a later position was answered, with matches, while the first is still
\* running, an earlier one failed and a sport is not yet submitted
C16_Witness ==
    /\ Dispatched /\ pc = "submit"
    /\ Len(task) = 3 /\ Len(sports) > 3
    /\ task[1] = "running" /\ results[1] = EmptySlot
    /\ task[2] = "done" /\ ~Ok(Answered(2))
    /\ task[3] = "done" /\ results[3].value # <<>>

\* ------------------------------------------------------------------------
\* Properties of the search button
\* ------------------------------------------------------------------------
\* the ArbitrageWorker threads that are running
InFlight == {w \in 1..Len(worker) : worker[w].state # "finished"}

\* C17: the Find Opportunities button is disabled while an ArbitrageWorker
\* is running, at most one is running at any time, and the results shown
\* come from the search started last
C17_SingleFlight ==
    entry_point = "ArbitrageFinderGUI" =>
        /\ InFlight # {} => ~search_button
        /\ Cardinality(InFlight) <= 1
        /\ results_text \in {0, Len(worker)}

====
